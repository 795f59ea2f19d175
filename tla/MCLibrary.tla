------------------------------ MODULE MCLibrary ------------------------------
(***************************************************************************)
(* Small instances of the parts that share no state with each other.  A    *)
(* behaviour is one of a single part, so that the states of a run are      *)
(* those of its parts side by side.                                        *)
(***************************************************************************)
EXTENDS Assembly, Settings, Dispatcher, Selector, ReminderList

CONSTANTS
  Parts,       \* the parts of this run
  n1, n2, n3

VARIABLE part

\* Each user id ranks the nodes its own way, and neither in their order.
MCScore ==
  [k \in Keys |-> [n \in Nodes |->
     CASE n = n1 -> IF k = "u1" THEN 2 ELSE 1
       [] n = n2 -> IF k = "u1" THEN 3 ELSE 0
       [] OTHER  -> IF k = "u1" THEN 1 ELSE 5]]

MCLimits == {-1, 0, 2, 3}

partVars == <<part, allVars, settingsVars, dispatcherVars, selectorVars, listVars>>

LibraryInit ==
  /\ part \in Parts
  /\ part # "assembly" => /\ opts = {} /\ telemetry = "off" /\ flaw = "none"
                          /\ named = [c \in Defaults |-> ""]
  /\ part # "settings" => component = "pubsub"
  /\ part # "selector" => registered = {}
  /\ part # "list" => rows = <<>>
  /\ AssemblyInit /\ SettingsInit /\ DispatcherInit /\ SelectorInit /\ ListInit

LibraryNext ==
  /\ UNCHANGED part
  /\ \/ /\ part = "assembly" /\ AssemblyNext
        /\ UNCHANGED <<settingsVars, dispatcherVars, selectorVars, listVars>>
     \/ /\ part = "settings" /\ SettingsNext
        /\ UNCHANGED <<allVars, dispatcherVars, selectorVars, listVars>>
     \/ /\ part = "dispatcher" /\ DispatcherNext
        /\ UNCHANGED <<allVars, settingsVars, selectorVars, listVars>>
     \/ /\ part = "selector" /\ SelectorNext
        /\ UNCHANGED <<allVars, settingsVars, dispatcherVars, listVars>>
     \/ /\ part = "list" /\ ListNext
        /\ UNCHANGED <<allVars, settingsVars, dispatcherVars, selectorVars>>

LibrarySpec == LibraryInit /\ [][LibraryNext]_partVars

=============================================================================
