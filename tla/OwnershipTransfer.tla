------------------------- MODULE OwnershipTransfer -------------------------
(***************************************************************************)
(* What the operator promises about one managed identity, whatever its     *)
(* controllers do: an instance that creates it holds it; it changes hands  *)
(* only in three steps, fenced for one heir, handed to that heir, then     *)
(* unfenced; and only the holder of an identity that is not fenced lets it *)
(* go.                                                                     *)
(***************************************************************************)
CONSTANTS Instances, Requests, None

VARIABLES
  phase,    \* "absent", "held", "fenced", "transferred"
  holder,   \* the instance that owns the identity, or None
  request,  \* the recovery that fenced it, or None
  heir      \* the instance it is fenced for, or None

transferVars == <<phase, holder, request, heir>>

Unfenced == request' = None /\ heir' = None

Init == /\ \/ phase = "absent" /\ holder = None
           \/ phase = "held" /\ holder \in Instances \cup {None}
        /\ request = None /\ heir = None

Create(i) == phase = "absent" /\ phase' = "held" /\ holder' = i /\ Unfenced

Fence(r, i) ==
  /\ phase = "held" /\ holder \notin {i, None}
  /\ phase' = "fenced" /\ request' = r /\ heir' = i /\ UNCHANGED holder

Transfer == /\ phase = "fenced"
            /\ phase' = "transferred" /\ holder' = heir /\ UNCHANGED <<request, heir>>

Unfence == phase = "transferred" /\ phase' = "held" /\ Unfenced /\ UNCHANGED holder

Delete == /\ phase = "held" /\ holder # None
          /\ phase' = "absent" /\ holder' = None /\ Unfenced

Next == \/ \E i \in Instances : Create(i)
        \/ \E r \in Requests, i \in Instances : Fence(r, i)
        \/ Transfer \/ Unfence \/ Delete

Spec == Init /\ [][Next]_transferVars
=============================================================================
