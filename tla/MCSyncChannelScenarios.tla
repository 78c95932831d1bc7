------------------------ MODULE MCSyncChannelScenarios ------------------------
(* Three scenarios of SyncChannel in one run:                                *)
(*   "pump"     every Send runs a nested message loop, process 2 sends only   *)
(*              from handlers, and no channel fails;                         *)
(*   "failure"  Sends block, a process may destroy its channel and its peer  *)
(*              may die;                                                     *)
(*   "timeout"  each process sends at most once, process 1 with a timeout or *)
(*              without, it may be shut down, and handlers may never return. *)
EXTENDS MCSyncChannel

VARIABLE scenario

Sends(p) == {i \in DOMAIN stack[p] : stack[p][i].at \in SendPoints}

InScenario ==
  \A p \in Proc :
    /\ scenario # "failure" => alive[p] /\ \A q \in Peers[p] : listener[p][q]
    /\ scenario = "timeout" => next_id[p] <= 2
    /\ scenario # "timeout" => ~shutdown_event[p]
    /\ \A i \in Sends(p) :
         /\ stack[p][i].pumped <=> scenario = "pump"
         /\ stack[p][i].timed => scenario = "timeout" /\ p = 1
         /\ scenario = "pump" /\ p = 2 => i > 1

FinishAnyHandler(p) == \E ok \in Outcomes : FinishHandler(p, ok)

ScenarioInit == Init /\ scenario \in {"pump", "failure", "timeout"}

\* Only in "timeout" may a handler never return.
ScenarioSpec ==
  /\ ScenarioInit
  /\ [][Next /\ UNCHANGED scenario /\ InScenario']_<<vars, scenario>>
  /\ \A p \in Proc :
       /\ ThreadFairness(p) /\ TimeoutFairness(p)
       /\ WF_vars(scenario # "timeout" /\ FinishAnyHandler(p))

\* ipc_sync_channel.cc, WaitForReply: two processes that call each other, at any
\* depth, do not deadlock.  Where handlers return, every Send does, with the
\* handlers it is nested in, through nested loops, failures and destroyed
\* channels.
EverySendReturns ==
  \A p \in Proc : scenario # "timeout" /\ stack[p] # <<>>
                    ~> (stack[p] = <<>> \/ ~alive[p])

=============================================================================
