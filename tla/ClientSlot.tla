------------------------------ MODULE ClientSlot ------------------------------
(***************************************************************************)
(* What the rest of hysteria-manager may rely on when it uses the client   *)
(* manager, without processes, signals, timeouts or goroutines: clients    *)
(* are served one at a time, and one that was asked to stop ends in        *)
(* silence while one that ends by itself may be reported, once.            *)
(*                                                                         *)
(* RuntimeManager implements it (Slot!Spec there); App is written against  *)
(* it.                                                                     *)
(***************************************************************************)
CONSTANT Clients        \* every client that is ever started

VARIABLE phase          \* how far each of them is

Phases ==
    {"unused", "serving", "asked", "exited", "gone", "reported", "abandoned"}

Init == phase = [c \in Clients |-> "unused"]

Move(c, from, to) == phase[c] = from /\ phase' = [phase EXCEPT ![c] = to]

\* A client is started when no other one is being served.
Start(c) ==
    /\ \A other \in Clients : phase[other] # "serving"
    /\ Move(c, "unused", "serving")

\* It is asked to stop; if it had just ended, that is not reported any more.
Ask(c) == Move(c, "serving", "asked") \/ Move(c, "exited", "gone")

End(c) == Move(c, "serving", "exited") \/ Move(c, "asked", "gone")

Report(c) == Move(c, "exited", "reported")

\* The manager process ends and its clients do not.
Abandon ==
    phase' = [c \in Clients |->
        IF phase[c] \in {"serving", "asked"} THEN "abandoned" ELSE phase[c]]

Next == Abandon \/ \E c \in Clients : Start(c) \/ Ask(c) \/ End(c) \/ Report(c)

Spec == Init /\ [][Next]_phase

=============================================================================
