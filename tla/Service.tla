------------------------------- MODULE Service -------------------------------
(***************************************************************************)
(* The processes of a deployment: gunicorn's master with its two           *)
(* background threads, the Chroma server it keeps beside it, and the       *)
(* workers as far as they wait for the license edition (gunicorn.conf.py,  *)
(* api/__init__.py).                                                       *)
(*                                                                         *)
(* The master starts Chroma in on_starting and leaves a monitor thread (a  *)
(* daemon) to restart it, and a license thread (not a daemon, so the       *)
(* interpreter waits for it) to ask HeavyDB for the edition.  Each worker  *)
(* polls the shared dict for that edition.  on_exit runs in the main       *)
(* thread while both threads go on.                                        *)
(*                                                                         *)
(* One tick is the two seconds between polls.  Time matters only to the    *)
(* race of polls against attempts: everything else takes any time.         *)
(***************************************************************************)
EXTENDS Naturals, FiniteSets

CONSTANTS
    WebWorkers,   \* the gunicorn workers
    MaxTries,     \* max_retries of the license task: 5
    OpTicks,      \* ticks a network operation may last: 8 seconds, 4
    MaxPolls,     \* max_retries of a worker: 20
    MaxDeaths,    \* bound on how often a Chroma server dies by itself
    MaxCrashes    \* bound on how often a worker dies by itself

ASSUME ServiceAssumption ==
    /\ MaxTries \in Nat \ {0}
    /\ OpTicks \in Nat \ {0}
    /\ MaxPolls \in Nat
    /\ MaxTries * OpTicks <= MaxPolls  \* 5 * 8 seconds against 20 * 2
    /\ MaxDeaths \in Nat
    /\ MaxCrashes \in Nat

VARIABLES
    master,     \* where the main thread of the master is
    monitor,    \* where the monitor thread is
    license,    \* where the license thread is
    flag,       \* "CHROMADB_STARTED" in os.environ
    current,    \* the server chromadb_process names, 0 for None
    waitsFor,   \* the server on_exit waits for
    running,    \* servers alive
    doomed,     \* servers sent SIGTERM
    started,    \* number of servers started, their names being 1..started
    deaths,
    manager,    \* whether the manager process of the shared dict is up
    edition,    \* the edition in the shared dict
    tries,      \* failed attempts of the license thread
    asked, op,  \* ticks of its current attempt, and of the operation in it
    configured, \* _config_provided
    worker,     \* what each worker makes of the edition
    polls,
    due,        \* whether a worker's sleep is over
    crashes,
    (* Only for stating properties: *)
    exitRaced,  \* a restart of Chroma overlapped the exit of the master
    slow        \* an attempt for the license took longer than one timeout

chromaVars == <<monitor, flag, current, running, doomed, started, deaths>>
licenseVars == <<license, edition, tries, asked, op, slow>>
workerVars == <<configured, worker, polls, due, crashes>>
exitVars == <<waitsFor, manager>>
serviceVars == <<master, chromaVars, licenseVars, workerVars, exitVars, exitRaced>>

NoEdition == "none"
Editions == {"free", "paid"}
\* The steps of on_exit, then the wait of the interpreter for its threads.
Exiting == {"exit", "terminate", "wait", "waiting", "joining"}
Ended == {"gone", "killed"}

-----------------------------------------------------------------------------
(* create_app has run, with preload_app: the manager is up.                *)

ServiceInit ==
    /\ master = "starting" /\ monitor = "none" /\ license = "none"
    /\ flag = FALSE /\ current = 0 /\ waitsFor = 0
    /\ running = {} /\ doomed = {} /\ started = 0 /\ deaths = 0
    /\ manager = TRUE
    /\ edition = NoEdition /\ tries = 0 /\ asked = 0 /\ op = 0
    /\ configured \in BOOLEAN
    /\ worker = [w \in WebWorkers |-> "off"]
    /\ polls = [w \in WebWorkers |-> 0]
    /\ due = [w \in WebWorkers |-> FALSE]
    /\ crashes = 0
    /\ exitRaced = FALSE /\ slow = FALSE

(* on_starting.  The configuration may have no use for a Chroma server;    *)
(* Popen may raise (no such program), and then gunicorn ends at once,      *)
(* without on_exit.                                                        *)
StartWithoutChroma ==
    /\ master = "starting"
    /\ master' = "running" /\ license' = "connect"
    /\ UNCHANGED <<chromaVars, edition, tries, asked, op, slow, workerVars, exitVars, exitRaced>>

StartWithChroma ==
    /\ master = "starting"
    /\ started' = 1 /\ running' = {1} /\ current' = 1 /\ flag' = TRUE
    /\ monitor' = "watch"
    /\ master' = "running" /\ license' = "connect"
    /\ UNCHANGED <<doomed, deaths, edition, tries, asked, op, slow, workerVars, exitVars,
                   exitRaced>>

StartFails ==
    /\ master = "starting"
    /\ master' = "gone" /\ manager' = FALSE
    /\ UNCHANGED <<chromaVars, licenseVars, workerVars, waitsFor, exitRaced>>

-----------------------------------------------------------------------------
(* The Chroma servers and the monitor.                                     *)

ServerDies(s) ==
    /\ deaths < MaxDeaths
    /\ s \in running \ doomed
    /\ running' = running \ {s}
    /\ deaths' = deaths + 1
    /\ UNCHANGED <<master, monitor, flag, current, doomed, started, licenseVars, workerVars,
                   exitVars, exitRaced>>

ServerStops(s) ==
    /\ s \in doomed
    /\ running' = running \ {s} /\ doomed' = doomed \ {s}
    /\ UNCHANGED <<master, monitor, flag, current, started, deaths, licenseVars, workerVars,
                   exitVars, exitRaced>>

\* Slip: restarts with the flag still set.
MonitorPollKeepingFlag ==
    /\ monitor = "watch"
    /\ current # 0 /\ current \notin running
    /\ monitor' = "spawn"
    /\ exitRaced' = (exitRaced \/ master \in Exiting)
    /\ UNCHANGED <<master, flag, current, running, doomed, started, deaths, licenseVars,
                   workerVars, exitVars>>

\* Slip: restarts without asking whether the server still runs.
MonitorPollUnasked ==
    /\ monitor = "watch" /\ current # 0
    /\ flag' = FALSE /\ monitor' = "spawn"
    /\ exitRaced' = (exitRaced \/ master \in Exiting)
    /\ UNCHANGED <<master, current, running, doomed, started, deaths, licenseVars,
                   workerVars, exitVars>>

\* A restart, unlike the first start, runs beside the main thread.
MonitorPoll ==
    /\ monitor = "watch"
    /\ current # 0 /\ current \notin running
    /\ flag' = FALSE /\ monitor' = "spawn"
    /\ exitRaced' = (exitRaced \/ master \in Exiting)
    /\ UNCHANGED <<master, current, running, doomed, started, deaths, licenseVars,
                   workerVars, exitVars>>

(* start_chromadb_server_process: nothing if the flag is set; the global   *)
(* names the new server only when Popen has returned.  An exception ends   *)
(* the thread.                                                             *)
MonitorSpawn ==
    /\ monitor = "spawn"
    /\ IF flag
       THEN monitor' = "watch" /\ UNCHANGED <<started, running>>
       ELSE /\ started' = started + 1 /\ running' = running \cup {started + 1}
            /\ monitor' = "assign"
    /\ UNCHANGED <<master, flag, current, doomed, deaths, licenseVars, workerVars, exitVars,
                   exitRaced>>

MonitorBreaks ==
    /\ monitor = "spawn" /\ ~flag
    /\ monitor' = "dead"
    /\ UNCHANGED <<master, flag, current, running, doomed, started, deaths, licenseVars,
                   workerVars, exitVars, exitRaced>>

MonitorAssign ==
    /\ monitor = "assign"
    /\ current' = started /\ flag' = TRUE
    /\ monitor' = "watch"
    /\ UNCHANGED <<master, running, doomed, started, deaths, licenseVars, workerVars, exitVars,
                   exitRaced>>

-----------------------------------------------------------------------------
(* The license thread: connect, read, each with a timeout of OpTicks.  An  *)
(* answer that arrives takes less than the timeout of its operation.       *)

Connected ==
    /\ license = "connect" /\ op < OpTicks
    /\ license' = "read" /\ op' = 0
    /\ UNCHANGED <<master, chromaVars, edition, tries, asked, slow, workerVars, exitVars,
                   exitRaced>>

Overlong(limit) == asked > limit

\* Slip: a failed try is not counted.
TryFailsUncounted ==
    /\ license \in {"connect", "read"}
    /\ license' = "connect" /\ asked' = 0 /\ op' = 0
    /\ slow' = (slow \/ Overlong(OpTicks))
    /\ UNCHANGED <<master, chromaVars, edition, tries, workerVars, exitVars, exitRaced>>

TryFails ==
    /\ license \in {"connect", "read"}
    /\ tries' = tries + 1
    /\ license' = IF tries + 1 = MaxTries THEN "ended" ELSE "connect"
    /\ asked' = 0 /\ op' = 0
    /\ slow' = (slow \/ Overlong(OpTicks))
    /\ UNCHANGED <<master, chromaVars, edition, workerVars, exitVars, exitRaced>>

Claims ==
    /\ license = "read" /\ op < OpTicks
    /\ license' = "put"
    /\ slow' = (slow \/ Overlong(OpTicks - 1))
    /\ UNCHANGED <<master, chromaVars, edition, tries, asked, op, workerVars, exitVars, exitRaced>>

\* The claims may not decode.  A put without a manager raises.
PutEdition(e) ==
    /\ license = "put" /\ manager
    /\ edition' = e /\ license' = "ended"
    /\ UNCHANGED <<master, chromaVars, tries, asked, op, slow, workerVars, exitVars, exitRaced>>

LicenseBreaks ==
    /\ license = "put"
    /\ license' = "ended"
    /\ UNCHANGED <<master, chromaVars, edition, tries, asked, op, slow, workerVars, exitVars,
                   exitRaced>>

(* Two seconds pass; no operation outlasts its timeout.                    *)
Tick ==
    /\ license \in {"connect", "read"} \/ \E w \in WebWorkers : worker[w] = "polling" /\ ~due[w]
    /\ license \in {"connect", "read"} => op < OpTicks
    /\ license # "put"
    /\ IF license \in {"connect", "read"}
       THEN asked' = asked + 1 /\ op' = op + 1
       ELSE UNCHANGED <<asked, op>>
    /\ due' = [w \in WebWorkers |-> worker[w] = "polling"]
    /\ UNCHANGED <<master, chromaVars, license, edition, tries, slow, configured, worker, polls,
                   crashes, exitVars, exitRaced>>

-----------------------------------------------------------------------------
(* The workers.                                                            *)

Boot(w) ==
    /\ master = "running" /\ worker[w] = "off"
    /\ worker' = [worker EXCEPT ![w] = "polling"]
    /\ polls' = [polls EXCEPT ![w] = 0]
    /\ due' = [due EXCEPT ![w] = FALSE]
    /\ UNCHANGED <<master, chromaVars, licenseVars, configured, crashes, exitVars, exitRaced>>

\* Slip: gives up one poll too early.
AfterPollSooner(e, n) ==
    CASE e = "free" -> {"tracing", "half"}
      [] e = "paid" -> {IF configured THEN "own" ELSE "off"}
      [] OTHER      -> {IF n + 1 >= MaxPolls THEN "gaveup" ELSE "polling"}

\* What a worker becomes by the n-th poll: an edition that is not free and
\* no configuration makes it exit, and gunicorn boots another.
AfterPoll(e, n) ==
    CASE e = "free" -> {"tracing", "half"}  \* validate_config may raise half-way
      [] e = "paid" -> {IF configured THEN "own" ELSE "off"}
      [] OTHER      -> {IF n >= MaxPolls THEN "gaveup" ELSE "polling"}

Poll(w) ==
    /\ worker[w] = "polling" /\ due[w]
    /\ \E s \in AfterPoll(edition, polls[w] + 1) : worker' = [worker EXCEPT ![w] = s]
    /\ polls' = [polls EXCEPT ![w] = @ + 1]
    /\ due' = [due EXCEPT ![w] = FALSE]
    /\ UNCHANGED <<master, chromaVars, licenseVars, configured, crashes, exitVars, exitRaced>>

Crash(w) ==
    /\ crashes < MaxCrashes /\ worker[w] # "off"
    /\ worker' = [worker EXCEPT ![w] = "off"]
    /\ crashes' = crashes + 1
    /\ UNCHANGED <<master, chromaVars, licenseVars, configured, polls, due, exitVars, exitRaced>>

-----------------------------------------------------------------------------
(* The end of the master.  The arbiter stops its workers and calls         *)
(* on_exit; a kill runs nothing.                                           *)

StopWorkers ==
    /\ master = "running"
    /\ master' = "exit"
    /\ worker' = [w \in WebWorkers |-> "off"]
    /\ exitRaced' = (monitor \in {"spawn", "assign"})
    /\ UNCHANGED <<chromaVars, licenseVars, configured, polls, due, crashes, exitVars>>

PopAndShutDown ==
    /\ master = "exit"
    /\ flag' = FALSE /\ manager' = FALSE
    /\ master' = "terminate"
    /\ UNCHANGED <<monitor, current, running, doomed, started, deaths, licenseVars, workerVars,
                   waitsFor, exitRaced>>

\* Slip: stops the server only while the flag says it runs.
TerminateIfFlagged ==
    /\ master = "terminate"
    /\ doomed' = IF flag THEN doomed \cup ({current} \cap running) ELSE doomed
    /\ master' = IF current = 0 \/ ~flag THEN "joining" ELSE "wait"
    /\ UNCHANGED <<monitor, flag, current, running, started, deaths, licenseVars, workerVars,
                   exitVars, exitRaced>>

Terminate ==
    /\ master = "terminate"
    /\ doomed' = doomed \cup ({current} \cap running)
    /\ master' = IF current = 0 THEN "joining" ELSE "wait"
    /\ UNCHANGED <<monitor, flag, current, running, started, deaths, licenseVars, workerVars,
                   exitVars, exitRaced>>

\* The global is read again: it may name another server by now.
Wait ==
    /\ master = "wait"
    /\ waitsFor' = current /\ master' = "waiting"
    /\ UNCHANGED <<chromaVars, licenseVars, workerVars, manager, exitRaced>>

Waited ==
    /\ master = "waiting" /\ waitsFor \notin running
    /\ master' = "joining"
    /\ UNCHANGED <<chromaVars, licenseVars, workerVars, exitVars, exitRaced>>

\* The interpreter ends with its last thread that is no daemon.
Join ==
    /\ master = "joining" /\ license \in {"none", "ended"}
    /\ master' = "gone"
    /\ monitor' = "none"
    /\ UNCHANGED <<flag, current, running, doomed, started, deaths, licenseVars, workerVars,
                   exitVars, exitRaced>>

KillMaster ==
    /\ master \notin Ended
    /\ master' = "killed" /\ monitor' = "none" /\ license' = "ended" /\ manager' = FALSE
    /\ worker' = [w \in WebWorkers |-> "off"]
    /\ UNCHANGED <<flag, current, running, doomed, started, deaths, edition, tries, asked, op,
                   slow, configured, polls, due, crashes, waitsFor, exitRaced>>

-----------------------------------------------------------------------------
MonitorStep == MonitorPoll \/ MonitorSpawn \/ MonitorBreaks \/ MonitorAssign
LicenseStep == Connected \/ TryFails \/ Claims \/ (\E e \in Editions : PutEdition(e))
                 \/ LicenseBreaks
StartStep == StartWithoutChroma \/ StartWithChroma \/ StartFails
ExitStep == PopAndShutDown \/ Terminate \/ Wait \/ Waited \/ Join
StopStep == \E s \in doomed : ServerStops(s)

ServiceNext ==
    \/ StartWithoutChroma \/ StartWithChroma \/ StartFails
    \/ \E s \in running : ServerDies(s)
    \/ \E s \in doomed : ServerStops(s)
    \/ MonitorPoll \/ MonitorSpawn \/ MonitorBreaks \/ MonitorAssign
    \/ Connected \/ TryFails \/ Claims \/ LicenseBreaks
    \/ \E e \in Editions : PutEdition(e)
    \/ Tick
    \/ \E w \in WebWorkers : Boot(w) \/ Poll(w) \/ Crash(w)
    \/ StopWorkers \/ PopAndShutDown \/ Terminate \/ Wait \/ Waited \/ Join
    \/ KillMaster

ServiceSpec == ServiceInit /\ [][ServiceNext]_serviceVars

(* Threads are scheduled, timeouts end operations, a terminated server     *)
(* ends.  Nothing obliges a server to die or a worker to crash.            *)
ServiceFair ==
    /\ WF_serviceVars(StartStep) /\ WF_serviceVars(MonitorStep) /\ WF_serviceVars(LicenseStep)
    /\ WF_serviceVars(ExitStep) /\ WF_serviceVars(StopStep)

FairServiceSpec == ServiceSpec /\ ServiceFair

-----------------------------------------------------------------------------
(* No server of this master is left behind by an orderly exit unless the   *)
(* monitor was restarting one while the master exited: on_exit terminates  *)
(* the server the global names, and whatever else is alive is lost.        *)
OutlivesOnlyByRace ==
    master = "gone" /\ ~exitRaced => running \subseteq doomed

(* Two servers are never alive at once on one port and one directory,      *)
(* unless the older has been told to end.                                  *)
OneServer ==
    Cardinality(running \ doomed) <= 1

(* The budget of the workers covers that of the license task: as long as   *)
(* no attempt lasts longer than one timeout, no worker gives up on an      *)
(* edition that is found after all.  (An attempt is a connect and a read   *)
(* with a timeout each, so one can last longer.)                           *)
GivesUpOnNothing ==
    ~slow /\ edition # NoEdition => \A w \in WebWorkers : worker[w] # "gaveup"

(* A dead server is replaced, unless starting one raised (which ends the   *)
(* monitor) or the master ends.                                            *)
ChromaComesBack ==
    (current # 0 /\ current \notin running)
        ~> (current \in running \/ monitor = "dead" \/ master \in Ended)

(* An exit that has begun ends, although the interpreter waits for the     *)
(* license thread and the monitor keeps restarting, with one exception:    *)
(* wait() reads the global again and may wait for a server that was        *)
(* started behind its back and that nobody told to end.                    *)
WaitsForNewServer ==
    /\ master = "waiting" /\ waitsFor \in running \ doomed
    /\ exitRaced
MasterEnds ==
    (master \in Exiting) ~> (master \in Ended \/ WaitsForNewServer)
=============================================================================
