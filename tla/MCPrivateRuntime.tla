-------------------------- MODULE MCPrivateRuntime --------------------------
(* The private runtime with interchangeable processes. *)
EXTENDS PrivateRuntime, TLC

RunsSymmetry == Permutations(Runs)

\* Two processes at once are explored as long as the exchange trades whole orders only; one
\* process after another over fills in any parts.
Whole(n) == n \in {0, Quantity}
WholeTogether ==
    (\E v, w \in Runs : v # w /\ ~At(v, "idle") /\ ~At(w, "idle"))
        => /\ Whole(order.filled) /\ (Whole(private.fills) \/ \A w \in Runs : local[w].pc \in {"idle", "apply"})
           /\ \A i \in 1..(Quantity - 1) : sends[<<"stop", i>>] = 0 /\ private.stop.id # i /\ private.candidate.id # i
           /\ \A g \in Generations : Whole(flattens[g].filled) /\ Whole(flattens[g].quantity)
=============================================================================
