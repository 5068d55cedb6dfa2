------------------------------- MODULE MCSession -------------------------------
(* A session and what lies between its two ends: a worker with two callers    *)
(* and a queue of two blocks instead of four; the panel of the client with    *)
(* two receivers, two values of a setting and a few presses; or a topic with  *)
(* two threads that publish, one stream and two classes of messages.  They    *)
(* share no state: a behaviour follows one of them.                           *)
EXTENDS ReceiverWorker, ClientSession, EventBus

CONSTANTS c1, c2, r1, r2, none, unknown, p1, p2, s1, k1, k2

MCCallers == {c1, c2}
MCReceivers == {r1, r2}
MCValues == {0, 1}
MCTabs == {"list", "global", "log"}
MCPublishers == {p1, p2}
MCSubscribers == {s1}
MCClasses == {k1, k2}

VARIABLE focus

partVars == <<focus, vars, sessionVars, topicVars>>

\* What is not in focus starts in one state.
PartInit ==
  /\ focus \in {"worker", "panel", "bus"} /\ Init /\ SessionInit /\ BusInit
  /\ file_ppm = 0
  /\ focus # "panel" => conf[r1].radio = 0
  /\ focus # "worker" => device = "none"
  /\ focus # "bus" => ~live

WorkerStep(A) == focus = "worker" /\ A /\ UNCHANGED <<focus, sessionVars, topicVars>>
PanelStep(A)  == focus = "panel" /\ A /\ UNCHANGED <<focus, vars, topicVars>>
BusStep(A)    == focus = "bus" /\ A /\ UNCHANGED <<focus, vars, sessionVars>>

\* The fairness of ReceiverWorker, of ClientSession and of EventBus.
PartSpec ==
  /\ PartInit
  /\ [][WorkerStep(Next) \/ PanelStep(SessionNext) \/ BusStep(BusNext)]_partVars
  /\ \A c \in Callers : WF_partVars(WorkerStep(CallStep(c)))
  /\ WF_partVars(WorkerStep(Ingest))
  /\ WF_partVars(WorkerStep(Process))
  /\ WF_partVars(WorkerStep(RunLoop))
  /\ WF_partVars(PanelStep(Send))
  /\ WF_partVars(PanelStep(\E c \in requests : Reply(c) \/ GiveUp(c)))
  /\ \A s \in Subscribers : WF_partVars(BusStep(Handler(s)))
  /\ \A p \in Publishers : WF_partVars(BusStep(Notify(p)))
=============================================================================
