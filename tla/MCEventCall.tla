----------------------------- MODULE MCEventCall -----------------------------
(* EventCall with its events built from a small set of session addresses. *)
EXTENDS EventCall, TLC

CONSTANT Addresses

MCKinds   == {"read", "write", "time"}
MCEvents  == (Addresses \X MCKinds) \cup {<<"listen", "read">>}
MCReadEv  == [s \in Addresses |-> <<s, "read">>]
MCWriteEv == [s \in Addresses |-> <<s, "write">>]
MCTimeEv  == [s \in Addresses |-> <<s, "time">>]
MCAccept  == <<"listen", "read">>
MCOwner   == [e \in MCEvents |-> e[1]]
MCWhat    == [e \in MCEvents |->
                CASE e = MCAccept    -> {"READ", "PERSIST"}
                  [] e[2] = "time"   -> {}
                  [] e[2] = "write"  -> {"WRITE"}
                  [] OTHER           -> {"READ"}]

\* Addresses of sessions are interchangeable; descriptors are numbers.
MCSymmetry == Permutations(Addresses)
=============================================================================
