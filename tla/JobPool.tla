------------------------------ MODULE JobPool ------------------------------
(***************************************************************************)
(* The jobs of the master (iolink_main.c).  A thread that wants the main   *)
(* thread to do something fetches a free job, fills it in and posts it to  *)
(* the one mailbox; the main thread handles the job and returns it to the  *)
(* pool it came from.  The stack has a pool of its own, the services of    *)
(* the application have another.                                           *)
(*                                                                         *)
(* The threads are the main thread, the DL thread of each port and the     *)
(* threads of the application.  A DL thread posts the inputs of a cycle    *)
(* while it holds the mutex that guards them (DL_PDInputTransport_ind).    *)
(*                                                                         *)
(* What a job asks for is left out, and of its port what cb_pd does not    *)
(* need: the callback of a job posts up to MaxPosts further jobs.  A failed *)
(* CC_ASSERT halts the program.                                            *)
(***************************************************************************)
EXTENDS Integers, Sequences, FiniteSets

CONSTANTS
    Ports,          \* each has a DL thread
    Apps,           \* threads of the application
    StackJobs,      \* master->job
    ApiJobs,        \* master->job_api
    MaxPosts,       \* bound: jobs posted by the callback of a job
    CallbackReads   \* the application's cb_pd calls SMI_PDIn_req

NoJob   == "no job"
ExitJob == "exit"               \* on the stack of iolink_m_deinit
Jobs    == StackJobs \cup ApiJobs
Threads == Ports \cup Apps \cup {"main", "callback"}

ASSUME JobAssumption ==
    /\ IsFiniteSet(StackJobs) /\ IsFiniteSet(ApiJobs)
    /\ StackJobs \cap ApiJobs = {}
    /\ {NoJob, ExitJob} \cap Jobs = {}
    /\ Ports \cap Apps = {} /\ {"main", "callback"} \cap (Ports \cup Apps) = {}
    /\ MaxPosts \in Nat /\ CallbackReads \in BOOLEAN

(* Mutant: room for the jobs of the stack only.                            *)
CapacityStack == Cardinality(StackJobs)
Capacity == Cardinality(StackJobs) + Cardinality(ApiJobs)   \* of master->mbox

VARIABLES
    avail,      \* the jobs in mbox_avail
    apiAvail,   \* the jobs in mbox_api_avail
    mbox,       \* the jobs that wait for the main thread
    hand,       \* the job a thread has in hand; "callback" is the main
                \* thread in the callback of the job that "main" has in hand
    main,       \* what the main thread does, and for which job
    dl,         \* where a DL thread is
    app,        \* what a thread of the application does, and for which port
    mtxPdin,    \* who holds al->mtx_pdin of a port
    exit,       \* the shutdown by iolink_m_deinit
    halted      \* a CC_ASSERT has failed

vars == <<avail, apiAvail, mbox, hand, main, dl, app, mtxPdin, exit, halted>>
jobVars == <<avail, apiAvail, mbox, hand>>

Free == "free"
MainIdle == [pc |-> "fetch", type |-> "NONE", port |-> Free, posts |-> 0]
AppIdle  == [pc |-> "idle", port |-> Free]

Init ==
    /\ avail = StackJobs /\ apiAvail = ApiJobs
    /\ mbox = <<>>
    /\ hand = [t \in Threads |-> NoJob]
    /\ main = MainIdle
    /\ dl = [p \in Ports |-> "idle"]
    /\ app = [a \in Apps |-> AppIdle]
    /\ mtxPdin = [p \in Ports |-> Free]
    /\ exit = "no" /\ halted = FALSE

-----------------------------------------------------------------------------
(* Jobs.                                                                   *)

Entry(job, type, port) == [job |-> job, type |-> type, port |-> port]

(* The case labels of iolink_main, by the pool they return the job to.     *)
StackTypes == {"PD_EVENT", "IND"}
ApiTypes   == {"SMI", "AL_ABORT"}
Types      == StackTypes \cup ApiTypes \cup {"EXIT"}

Assert == halted' = TRUE /\ UNCHANGED <<avail, apiAvail, mbox, hand, main, dl, app, mtxPdin, exit>>

Fetch(t) ==
    \E job \in avail :
        /\ avail' = avail \ {job} /\ hand' = [hand EXCEPT ![t] = job]
        /\ UNCHANGED <<apiAvail, mbox>>
ApiFetch(t) ==
    \E job \in apiAvail :
        /\ apiAvail' = apiAvail \ {job} /\ hand' = [hand EXCEPT ![t] = job]
        /\ UNCHANGED <<avail, mbox>>
(* Mutant: the thread lets go of the job before it is posted.              *)
PostCleared(t, type, port) ==
    /\ hand' = [hand EXCEPT ![t] = NoJob]
    /\ mbox' = Append(mbox, Entry(hand'[t], type, port))
    /\ UNCHANGED <<avail, apiAvail>>
Post(t, type, port) ==
    /\ mbox' = Append(mbox, Entry(hand[t], type, port))
    /\ hand' = [hand EXCEPT ![t] = NoJob]
    /\ UNCHANGED <<avail, apiAvail>>
Full == Len(mbox) >= Capacity

(* iolink_post_job_with_type_and_callback asserts that there is room.      *)
CanPost(t) == ~halted /\ hand[t] # NoJob /\ ~Full
PostFails(t) == ~halted /\ hand[t] # NoJob /\ Full

-----------------------------------------------------------------------------
(* The DL thread of a port.                                                *)

(* DL_Control_ind and whatever else it tells the stack: of an empty pool   *)
(* iolink_fetch_avail_job asserts.                                         *)
DL_Control_ind(p) ==
    /\ ~halted /\ dl[p] = "idle"
    /\ Fetch(p)
    /\ dl' = [dl EXCEPT ![p] = "post"]
    /\ UNCHANGED <<main, app, mtxPdin, exit, halted>>
DlPost(p) ==
    /\ dl[p] = "post" /\ CanPost(p)
    /\ Post(p, "IND", Free)
    /\ dl' \in {[dl EXCEPT ![p] = "input"], [dl EXCEPT ![p] = "idle"]}
    /\ UNCHANGED <<main, app, mtxPdin, exit, halted>>

(* DL_PDInputTransport_ind: the mutex, the inputs, then                    *)
(* iolink_post_job_pd_event waits until there is a job.                    *)
LockInputs(p) ==
    /\ ~halted /\ dl[p] = "input" /\ mtxPdin[p] = Free
    /\ mtxPdin' = [mtxPdin EXCEPT ![p] = "dl"]
    /\ dl' = [dl EXCEPT ![p] = "wait"]
    /\ UNCHANGED <<jobVars, main, app, exit, halted>>
FetchPdEvent(p) ==
    /\ ~halted /\ dl[p] = "wait"
    /\ Fetch(p)
    /\ dl' = [dl EXCEPT ![p] = "event"]
    /\ UNCHANGED <<main, app, mtxPdin, exit, halted>>
(* Mutant: the mutex stays locked when jobs are waiting.                   *)
PostPdEventHolds(p) ==
    /\ dl[p] = "event" /\ CanPost(p)
    /\ Post(p, "PD_EVENT", p)
    /\ mtxPdin' = [mtxPdin EXCEPT ![p] = IF mbox # <<>> THEN @ ELSE Free]
    /\ dl' = [dl EXCEPT ![p] = "idle"]
    /\ UNCHANGED <<main, app, exit, halted>>
PostPdEvent(p) ==
    /\ dl[p] = "event" /\ CanPost(p)
    /\ Post(p, "PD_EVENT", p)
    /\ mtxPdin' = [mtxPdin EXCEPT ![p] = Free]
    /\ dl' = [dl EXCEPT ![p] = "idle"]
    /\ UNCHANGED <<main, app, exit, halted>>

-----------------------------------------------------------------------------
(* The application.                                                        *)

AppGoes(a, pc, p) == app' = [app EXCEPT ![a] = [pc |-> pc, port |-> p]]
Calls(a) == ~halted /\ app[a].pc = "idle" /\ exit = "no"

(* The services that give the main thread a job: SMI_PortConfiguration_req *)
(* and its like, SMI_DeviceRead_req and its like, AL_Abort.                *)
Request(a) ==
    /\ Calls(a)
    /\ ApiFetch(a)
    /\ AppGoes(a, "post", Free)
    /\ UNCHANGED <<main, dl, mtxPdin, exit, halted>>
AppPost(a) ==
    /\ CanPost(a)
    /\ \E type \in ApiTypes : Post(a, type, Free)
    /\ app' = [app EXCEPT ![a] = AppIdle]
    /\ UNCHANGED <<main, dl, mtxPdin, exit, halted>>

(* SMI_PDIn_req: AL_GetInput_req copies under the mutex.                   *)
SMI_PDIn_req(a, p) ==
    /\ Calls(a)
    /\ AppGoes(a, "lock", p)
    /\ UNCHANGED <<jobVars, main, dl, mtxPdin, exit, halted>>
LockRead(a) ==
    /\ ~halted /\ app[a].pc = "lock" /\ mtxPdin[app[a].port] = Free
    /\ mtxPdin' = [mtxPdin EXCEPT ![app[a].port] = "app"]
    /\ AppGoes(a, "read", app[a].port)
    /\ UNCHANGED <<jobVars, main, dl, exit, halted>>
Read(a) ==
    /\ ~halted /\ app[a].pc = "read"
    /\ mtxPdin' = [mtxPdin EXCEPT ![app[a].port] = Free]
    /\ app' = [app EXCEPT ![a] = AppIdle]
    /\ UNCHANGED <<jobVars, main, dl, exit, halted>>

(* iolink_m_deinit, up to the wait for has_exited.                         *)
(* Mutant: that there was no room for EXIT goes unnoticed.                 *)
DeinitUnchecked ==
    /\ ~halted /\ exit = "no" /\ \A a \in Apps : app[a].pc = "idle"
    /\ mbox' = IF Full THEN mbox ELSE Append(mbox, Entry(ExitJob, "EXIT", Free))
    /\ exit' = "posted"
    /\ UNCHANGED <<avail, apiAvail, hand, main, dl, app, mtxPdin, halted>>
Deinit ==
    /\ ~halted /\ exit = "no" /\ \A a \in Apps : app[a].pc = "idle"
    /\ ~Full
    /\ mbox' = Append(mbox, Entry(ExitJob, "EXIT", Free))
    /\ exit' = "posted"
    /\ UNCHANGED <<avail, apiAvail, hand, main, dl, app, mtxPdin, halted>>

-----------------------------------------------------------------------------
(* The main thread, iolink_main.                                           *)

Take ==
    /\ ~halted /\ main.pc = "fetch" /\ mbox # <<>> /\ Head(mbox).type # "EXIT"
    /\ hand' = [hand EXCEPT !["main"] = Head(mbox).job]
    /\ mbox' = Tail(mbox)
    /\ main' = [pc |-> "handle", type |-> Head(mbox).type, port |-> Head(mbox).port, posts |-> 0]
    /\ UNCHANGED <<avail, apiAvail, dl, app, mtxPdin, exit, halted>>
TakeExit ==
    /\ ~halted /\ main.pc = "fetch" /\ mbox # <<>> /\ Head(mbox).type = "EXIT"
    /\ mbox' = Tail(mbox)
    /\ main' = [main EXCEPT !.pc = "exited"]
    /\ exit' = "exited"
    /\ UNCHANGED <<avail, apiAvail, hand, dl, app, mtxPdin, halted>>

(* job->callback posts a job.                                              *)
CallbackFetch ==
    /\ ~halted /\ main.pc = "handle" /\ main.type # "PD_EVENT" /\ main.posts < MaxPosts
    /\ Fetch("callback")
    /\ main' = [main EXCEPT !.pc = "post", !.posts = @ + 1]
    /\ UNCHANGED <<dl, app, mtxPdin, exit, halted>>
CallbackPost ==
    /\ main.pc = "post" /\ CanPost("callback")
    /\ Post("callback", "IND", Free)
    /\ main' = [main EXCEPT !.pc = "handle"]
    /\ UNCHANGED <<dl, app, mtxPdin, exit, halted>>

(* cb_pd may read the inputs, which takes their mutex.                     *)
CallbackOver ==
    (main.type = "PD_EVENT" /\ CallbackReads) => mtxPdin[main.port] = Free

(* The job goes back, to the pool its type says.                           *)
(* Mutant: AL_ABORT stands among the types of the stack.                   *)
ReturnToMixed ==
    IF main.type \in StackTypes \cup {"AL_ABORT"}
    THEN avail' = avail \cup {hand["main"]} /\ UNCHANGED apiAvail
    ELSE apiAvail' = apiAvail \cup {hand["main"]} /\ UNCHANGED avail
(* Mutant: the event of a cycle is not returned.                           *)
ReturnToNot ==
    CASE main.type = "PD_EVENT" -> UNCHANGED <<avail, apiAvail>>
      [] main.type = "IND"      -> avail' = avail \cup {hand["main"]} /\ UNCHANGED apiAvail
      [] OTHER                  -> apiAvail' = apiAvail \cup {hand["main"]} /\ UNCHANGED avail
ReturnTo ==
    IF main.type \in StackTypes
    THEN avail' = avail \cup {hand["main"]} /\ UNCHANGED apiAvail
    ELSE apiAvail' = apiAvail \cup {hand["main"]} /\ UNCHANGED avail
Return ==
    /\ ~halted /\ main.pc = "handle" /\ CallbackOver
    /\ ReturnTo
    /\ hand' = [hand EXCEPT !["main"] = NoJob]
    /\ main' = MainIdle
    /\ UNCHANGED <<mbox, dl, app, mtxPdin, exit, halted>>

-----------------------------------------------------------------------------
(* A thread finds no job, or no room for one: CC_ASSERT (0).               *)
NoneAvail ==
    /\ ~halted /\ avail = {}
    /\ \/ \E p \in Ports : dl[p] = "idle"
       \/ main.pc = "handle" /\ main.type # "PD_EVENT" /\ main.posts < MaxPosts
    /\ Assert
NoneApiAvail == (\E a \in Apps : Calls(a)) /\ apiAvail = {} /\ Assert
NoRoom ==
    /\ \/ \E t \in Threads \ {"main"} : PostFails(t)
       \/ ~halted /\ exit = "no" /\ Full /\ \A a \in Apps : app[a].pc = "idle"
    /\ Assert

-----------------------------------------------------------------------------
DlThread(p) == DL_Control_ind(p) \/ DlPost(p) \/ PostPdEvent(p)
DlWaits(p) == LockInputs(p) \/ FetchPdEvent(p)
MainThread == Take \/ TakeExit \/ CallbackFetch \/ CallbackPost \/ Return

Next ==
    \/ \E p \in Ports : DlThread(p) \/ DlWaits(p)
    \/ \E a \in Apps, p \in Ports : SMI_PDIn_req(a, p)
    \/ \E a \in Apps : Request(a) \/ AppPost(a) \/ LockRead(a) \/ Read(a)
    \/ Deinit
    \/ MainThread
    \/ NoneAvail \/ NoneApiAvail \/ NoRoom

Spec == Init /\ [][Next]_vars

(* The threads run.  A thread that waits for a mutex or for a job gets it  *)
(* when it becomes free again and again.                                   *)
LiveSpec ==
    /\ Spec
    /\ WF_vars(MainThread)
    /\ \A p \in Ports : WF_vars(DlPost(p) \/ PostPdEvent(p))
                        /\ SF_vars(LockInputs(p)) /\ SF_vars(FetchPdEvent(p))
    /\ \A a \in Apps : WF_vars(AppPost(a) \/ Read(a)) /\ SF_vars(LockRead(a))

-----------------------------------------------------------------------------
(* Properties.                                                             *)

Entries == [job : Jobs \cup {ExitJob}, type : Types, port : Ports \cup {Free}]
JobsTyped ==
    /\ avail \subseteq Jobs /\ apiAvail \subseteq Jobs
    /\ mbox \in Seq(Entries)
    /\ hand \in [Threads -> Jobs \cup {NoJob}]
TypeOK ==
    /\ JobsTyped
    /\ main \in [pc : {"fetch", "handle", "post", "exited"}, type : Types \cup {"NONE"},
                 port : Ports \cup {Free}, posts : 0 .. MaxPosts]
    /\ dl \in [Ports -> {"idle", "post", "input", "wait", "event"}]
    /\ app \in [Apps -> [pc : {"idle", "post", "lock", "read"}, port : Ports \cup {Free}]]
    /\ mtxPdin \in [Ports -> {Free, "dl", "app"}]
    /\ exit \in {"no", "posted", "exited"} /\ halted \in BOOLEAN

Queued(job) == \E i \in 1 .. Len(mbox) : mbox[i].job = job
Held(job)   == \E t \in Threads : hand[t] = job

(* A job is in one place: in its own pool, in the mailbox once, or in one  *)
(* hand.  So no two threads fill in the same job, none is handled twice,   *)
(* and none is lost.                                                       *)
PoolsKeepTheirOwn == avail \subseteq StackJobs /\ apiAvail \subseteq ApiJobs
QueuedOnce == \A i, j \in 1 .. Len(mbox) : mbox[i].job = mbox[j].job => i = j
HeldOnce == \A s, t \in Threads : hand[s] = hand[t] /\ hand[s] # NoJob => s = t
Apart ==
    \A job \in Jobs :
        /\ ~(Queued(job) /\ Held(job))
        /\ job \in avail \cup apiAvail => ~Queued(job) /\ ~Held(job)
NoneLost == \A job \in Jobs : job \in avail \cup apiAvail \/ Queued(job) \/ Held(job)
JobsConserved == PoolsKeepTheirOwn /\ QueuedOnce /\ HeldOnce /\ Apart /\ NoneLost

(* Until the shutdown a thread that has a job in hand finds room for it in *)
(* the mailbox: the assertions after os_mbox_post never fail.              *)
PostsNeverFail ==
    exit = "no" => \A t \in Threads : hand[t] # NoJob => Len(mbox) < Capacity

Over == halted \/ exit # "no"

(* A DL thread that waits for a job holds the mutex of the inputs: it gets *)
(* one, lets go of them, and a reader of the inputs gets the mutex.        *)
InputsRead == \A a \in Apps : app[a].pc = "lock" ~> (app[a].pc = "idle" \/ Over)

(* iolink_m_deinit gets its answer.                                        *)
Exits == exit = "posted" ~> (exit = "exited" \/ halted)
=============================================================================
