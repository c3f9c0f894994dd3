----------------------------- MODULE MCServices -----------------------------
(* The components that share no state with each other or with the others,  *)
(* for TLC: which of them runs is chosen at the beginning.                 *)
EXTENDS MCPasswdStore, MCPasswordAging, MCTimeScheduler, MCProcess

VARIABLE component

servicesVars ==
  <<component, storeVars, agingVars, schedulerVars, processVars>>

Runs(c) == component = c /\ UNCHANGED component

(* Of one that does not run, one of the states it can begin in will do. *)
Rests(c) == component # c

ServicesInit ==
  /\ component \in {"PasswdStore", "PasswordAging", "TimeScheduler", "Process"}
  /\ StoreInit /\ (Rests("PasswdStore") => ~faulty)
  /\ AgingInit /\ (Rests("PasswordAging") => entry.hash = CHOOSE hash \in Passwords : TRUE)
  /\ SchedulerInit /\ (Rests("TimeScheduler") => event = 0)
  /\ ProcessInit

ServicesNext ==
  \/ /\ Runs("PasswdStore") /\ StoreNext
     /\ UNCHANGED <<agingVars, schedulerVars, processVars>>
  \/ /\ Runs("PasswordAging") /\ AgingNext
     /\ UNCHANGED <<storeVars, schedulerVars, processVars>>
  \/ /\ Runs("TimeScheduler") /\ SchedulerNext
     /\ UNCHANGED <<storeVars, agingVars, processVars>>
  \/ /\ Runs("Process") /\ ProcessNext
     /\ UNCHANGED <<storeVars, agingVars, schedulerVars>>

ServicesSpec ==
  /\ ServicesInit /\ [][ServicesNext]_servicesVars
  /\ WF_processVars(component = "Process" /\ CallerStep)
  /\ WF_processVars(component = "Process" /\ CommandStep)
=============================================================================
