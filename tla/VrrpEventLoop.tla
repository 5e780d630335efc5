--------------------------- MODULE VrrpEventLoop ---------------------------
(***************************************************************************)
(* VrrpService driven by MainLoop, as in the daemon: epoll_wait returns up *)
(* to 16 ready descriptors at once, and MainLoop::run calls their monitors *)
(* one after the other.  Between the return and the call, an earlier       *)
(* callback of the same batch may restart or stop the timer an event is    *)
(* about; stopping a timer deletes its monitor, to which the event points. *)
(* A signal is noticed between two batches, and ends the daemon.           *)
(***************************************************************************)
EXTENDS VrrpService, SequencesExt

CONSTANTS
  MaxReceived   \* bound on packets waiting in the socket

ASSUME LoopAssumption == MaxReceived \in Nat

VARIABLES
  received,  \* packets waiting in each router's socket
  batch,     \* the events epoll_wait returned and run has not served yet
  monitors,  \* what the memory of the timers' monitors holds
  loop,      \* "testing" m_aborted, "waiting" for epoll, "serving" a batch, "ended" by a
             \* signal, or "crashed" by a call through a deleted monitor
  aborted    \* m_aborted

loopVars == <<vars, received, batch, monitors, loop, aborted>>

\* The services own two timers, of which one at a time is armed: their monitors
\* take two blocks of memory at most.
Blocks == {1, 2}
Deleted == "deleted"

\* An event points at a monitor: that of a descriptor watched for the life of the
\* daemon, or a block of memory where a timer's monitor was at the epoll_wait.
Permanent(name) == [monitor |-> name, block |-> 0]
TimerEvent(b) == [monitor |-> "timer", block |-> b]

Events == {Permanent(n) : n \in {"socket", "netlink", "telnet"}}
            \cup {TimerEvent(b) : b \in Blocks}

RemainingOf(r, b) ==
  IF monitors[r][b] = "masterDown" THEN masterDownTimer[r] ELSE advertisementTimer[r]

Ready(r) ==
  {e \in Events :
     CASE e.monitor = "socket"  -> received[r] # <<>>
       [] e.monitor = "netlink" -> linkEvents[r] # <<>>
       [] e.monitor = "telnet"  -> FALSE
       [] e.monitor = "timer"   ->
            monitors[r][e.block] # Deleted /\ RemainingOf(r, e.block) = 0}

-----------------------------------------------------------------------------
(* Timer::start and stop add and remove the timer's monitor.  One that was   *)
(* armed before a callback and is armed after it keeps its monitor, unless   *)
(* the callback was its own: Timer::callback begins with stop().  A new      *)
(* monitor takes any free block, the one just deleted included.              *)

ArmedSet(md, adv) ==
  {t \in {"masterDown", "advertisement"} :
     Armed(IF t = "masterDown" THEN md ELSE adv)}

Allocate(r, restarted) ==
  LET before == ArmedSet(masterDownTimer[r], advertisementTimer[r])
      after  == ArmedSet(masterDownTimer'[r], advertisementTimer'[r])
      kept   == (before \cap after) \ restarted
  IN \E new \in [Blocks -> after \cup {Deleted}] :
       /\ \A b \in Blocks : monitors[r][b] \in kept => new[b] = monitors[r][b]
       /\ \A t \in after : Cardinality({b \in Blocks : new[b] = t}) = 1
       /\ monitors' = [monitors EXCEPT ![r] = new]

Served(r) ==
  /\ loop[r] = "serving"
  /\ batch' = [batch EXCEPT ![r] = Tail(@)]

\* On to the next event, or back to the top of the loop.
Continue(r) ==
  /\ loop' = [loop EXCEPT ![r] = IF batch'[r] = <<>> THEN "testing" ELSE "serving"]
  /\ UNCHANGED aborted

Event(r) == Head(batch[r])

-----------------------------------------------------------------------------
(* The loop *)

\* A signal that came is noticed here and nowhere else.
TestAborted(r) ==
  /\ loop[r] = "testing"
  /\ ~aborted[r]
  /\ loop' = [loop EXCEPT ![r] = "waiting"]
  /\ UNCHANGED <<vars, received, batch, monitors, aborted>>

\* run() returns, and the cleanup at exit deletes the service.
Finish(r) ==
  /\ loop[r] = "testing"
  /\ aborted[r]
  /\ loop' = [loop EXCEPT ![r] = "ended"]
  /\ \/ disable(r)
     \/ state[r] \in {"Disabled", "LinkDown"} /\ UNCHANGED vars
  /\ Allocate(r, {})
  /\ UNCHANGED <<received, batch, aborted>>

\* Every ready descriptor is in the batch, in the order in which they became
\* ready; an operator may also have typed a command.
EpollWait(r) ==
  /\ loop[r] = "waiting"
  /\ loop' = [loop EXCEPT ![r] = "serving"]
  /\ \E typed \in {{}, {Permanent("telnet")}} :
       /\ Ready(r) \cup typed # {}
       /\ \E order \in SetToSeqs(Ready(r) \cup typed) :
            batch' = [batch EXCEPT ![r] = order]
  /\ UNCHANGED <<vars, received, monitors, aborted>>

\* Outside Backup and Master the packet is only counted.
ServeSocket(r) ==
  /\ Served(r)
  /\ Event(r) = Permanent("socket")
  /\ received' = [received EXCEPT ![r] = Tail(@)]
  /\ \/ onIncomingVrrpPacket(r, Head(received[r])) /\ Allocate(r, {})
     \/ state[r] \in {"Disabled", "LinkDown"} /\ UNCHANGED <<vars, monitors>>
  /\ Continue(r)

ServeNetlink(r) ==
  /\ Served(r)
  /\ Event(r) = Permanent("netlink")
  /\ interfaceCallback(r)
  /\ Allocate(r, {})
  /\ Continue(r)
  /\ UNCHANGED received

ServeTelnet(r) ==
  /\ Served(r)
  /\ Event(r) = Permanent("telnet")
  /\ Operate(r)
  /\ Allocate(r, {})
  /\ Continue(r)
  /\ UNCHANGED received

\* The block holds a monitor: that timer is served, whichever it is by now.
ServeTimer(r) ==
  /\ Served(r)
  /\ Event(r).monitor = "timer"
  /\ \/ /\ monitors[r][Event(r).block] = "masterDown"
        /\ onMasterDownTimer(r)
        /\ Allocate(r, {"masterDown"})
     \/ /\ monitors[r][Event(r).block] = "advertisement"
        /\ onAdvertisementTimer(r)
        /\ Allocate(r, {"advertisement"})
  /\ Continue(r)
  /\ UNCHANGED received

\* The block is free.  Its old contents may still be there, and then the timer
\* they name, no longer armed, ignores the call; or they are not.
ServeDeleted(r) ==
  /\ Served(r)
  /\ Event(r).monitor = "timer"
  /\ monitors[r][Event(r).block] = Deleted
  /\ \/ Continue(r)
     \/ loop' = [loop EXCEPT ![r] = "crashed"] /\ UNCHANGED aborted
  /\ UNCHANGED <<vars, received, monitors>>

-----------------------------------------------------------------------------
(* The environment acts at any time, also while a batch is being served.     *)

\* signalCallback, for any of three signals.  It interrupts epoll_wait, unless run() has
\* tested m_aborted and not called epoll_wait yet.
Signal(r) ==
  /\ loop[r] \in {"testing", "waiting", "serving"}
  /\ aborted' = [aborted EXCEPT ![r] = TRUE]
  /\ loop' \in {loop, [loop EXCEPT ![r] = IF @ = "waiting" THEN "testing" ELSE @]}
  /\ UNCHANGED <<vars, received, batch, monitors>>

Arrive(r, pkt) ==
  /\ Len(received[r]) < MaxReceived
  /\ CanReceive(r)
  /\ received' = [received EXCEPT ![r] = Append(@, pkt)]
  /\ UNCHANGED <<vars, batch, monitors, loop, aborted>>

ChangeLink(r) ==
  /\ LinkChange(r)
  /\ UNCHANGED <<received, batch, monitors, loop, aborted>>

Pass(d) ==
  /\ Elapse(d)
  /\ UNCHANGED <<received, batch, monitors, loop, aborted>>

LoopInit ==
  /\ Init
  /\ received = [r \in Routers |-> <<>>]
  /\ batch = [r \in Routers |-> <<>>]
  /\ monitors = [r \in Routers |-> [b \in Blocks |-> Deleted]]
  /\ loop = [r \in Routers |-> "testing"]
  /\ aborted = [r \in Routers |-> FALSE]

LoopNext ==
  \/ \E r \in Routers :
       \/ TestAborted(r) \/ Finish(r) \/ EpollWait(r)
       \/ ServeSocket(r) \/ ServeNetlink(r) \/ ServeTelnet(r)
       \/ ServeTimer(r) \/ ServeDeleted(r)
       \/ ChangeLink(r) \/ Signal(r)
       \/ \E pkt \in Packets : Arrive(r, pkt)
  \/ \E d \in TimeSteps : Pass(d)

LoopSpec == LoopInit /\ [][LoopNext]_loopVars

\* The loop runs on, epoll_wait returns while a descriptor is ready, and time passes.
Serve(r) ==
  ServeSocket(r) \/ ServeNetlink(r) \/ ServeTelnet(r) \/ ServeTimer(r) \/ ServeDeleted(r)

FairLoopSpec ==
  /\ LoopSpec
  /\ \A r \in Routers : /\ WF_loopVars(TestAborted(r) \/ Finish(r))
                         /\ WF_loopVars(Ready(r) # {} /\ EpollWait(r))
                         /\ WF_loopVars(Serve(r))
  /\ WF_loopVars(\E d \in TimeSteps : Pass(d))

-----------------------------------------------------------------------------
(* Properties *)

\* A daemon that got a signal ends, though the signal may come just before it waits:
\* a router that takes part has a timer that wakes it, but for one that never expires
\* (see BackupTimerRuns).
EndsWhenSignalled ==
  \A r \in Routers :
    aborted[r] /\ state[r] \in {"Backup", "Master"} /\ masterDownTimer[r] # Stalled
      ~> loop[r] \in {"ended", "crashed"}

\* A Backup becomes Master only when its wait is over, and the wait restarts with
\* every advertisement of the right master ("wait for the next announcement",
\* vrrpservice.cpp:555).
TakesOverOnlyWhenDue ==
  [][\A r \in Routers :
       state[r] = "Backup" /\ state'[r] = "Master" => masterDownTimer[r] = 0]_loopVars

=============================================================================
