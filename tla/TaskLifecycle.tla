--------------------------- MODULE TaskLifecycle ---------------------------
(***************************************************************************)
(* What every part of the server promises about the row of one generation  *)
(* task: it is inserted as queued, at most one worker starts it, and it    *)
(* gets one final status, for ever.  The modules of the money and of the   *)
(* dispatch of a task both implement this specification.                   *)
(***************************************************************************)
CONSTANT Tasks
VARIABLE status

Unfinished == {"queued", "processing"}
Final      == {"success", "failed", "canceled"}

Init == status = [t \in Tasks |-> "absent"]

Insert(t) ==
    /\ status[t] = "absent"
    /\ status' = [status EXCEPT ![t] = "queued"]

Start(t) ==
    /\ status[t] = "queued"
    /\ status' = [status EXCEPT ![t] = "processing"]

\* Only a task that was started can succeed.
End(t, outcome) ==
    /\ status[t] \in Unfinished
    /\ outcome = "success" => status[t] = "processing"
    /\ status' = [status EXCEPT ![t] = outcome]

Next == \E t \in Tasks : Insert(t) \/ Start(t) \/ \E s \in Final : End(t, s)

Spec == Init /\ [][Next]_status
=============================================================================
