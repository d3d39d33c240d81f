---------------------------- MODULE StructureSeam ----------------------------
(* What an option broker promises the options bridge, whichever it is (the  *)
(* seam OptionPaperBroker and LiveOptionBrokerAdapter share): a call in     *)
(* progress changes nothing the bridge can see; an entry opens the whole    *)
(* structure or nothing; an exit closes it, or halts with a part of it      *)
(* still open; a halt pauses the runner until an operator resumes it; and a *)
(* restart brings back the last snapshot, paused.                           *)
CONSTANT Legs

VARIABLES call, open, saved, runner
vars == <<call, open, saved, runner>>

Init == call = "none" /\ open = {} /\ saved = {} /\ runner = "running"

Begin(kind) == call = "none" /\ call' = kind
Return      == call' = "none"

Enter == /\ Begin("open") /\ open = {} /\ runner = "running"
         /\ UNCHANGED <<open, saved, runner>>

Opened == /\ call = "open" /\ Return
          /\ open' = Legs
          /\ UNCHANGED <<saved, runner>>

\* Rolled back, or the call raised: nothing changed, and the bridge goes on.
Refused == /\ call # "none" /\ Return
           /\ UNCHANGED <<open, saved, runner>>

EntryHalted == /\ call = "open" /\ Return
               /\ runner' = "paused"
               /\ UNCHANGED <<open, saved>>

Exit == /\ Begin("close") /\ open # {}
        /\ UNCHANGED <<open, saved, runner>>

Closed == /\ call = "close" /\ Return
          /\ open' = {}
          /\ UNCHANGED <<saved, runner>>

ExitHalted == /\ call = "close" /\ Return
              /\ open' \in (SUBSET open) \ {{}}
              /\ runner' = "paused"
              /\ UNCHANGED saved

Resume == /\ runner = "paused" /\ runner' = "running"
          /\ UNCHANGED <<call, open, saved>>

Save == /\ call = "none" /\ saved' = open
        /\ UNCHANGED <<call, open, runner>>

Restart == /\ Return /\ open' = saved /\ runner' = "paused"
           /\ UNCHANGED saved

Next == \/ Enter \/ Opened \/ Refused \/ EntryHalted
        \/ Exit \/ Closed \/ ExitHalted
        \/ Resume \/ Save \/ Restart

Spec == Init /\ [][Next]_vars
=============================================================================
