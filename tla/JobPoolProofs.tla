--------------------------- MODULE JobPoolProofs ---------------------------
(***************************************************************************)
(* For any number of ports, of threads of the application and of jobs: no  *)
(* job is in two places or lost, and a post finds room in the mailbox.     *)
(***************************************************************************)
EXTENDS JobPool, FiniteSetTheorems, TLAPS

-----------------------------------------------------------------------------
(* What a thread does when it has a job in hand, and whose job it is.      *)
InHand ==
    /\ \A p \in Ports :
        /\ hand[p] # NoJob <=> dl[p] \in {"post", "event"}
        /\ hand[p] # NoJob => hand[p] \in StackJobs
    /\ \A a \in Apps :
        /\ hand[a] # NoJob <=> app[a].pc = "post"
        /\ hand[a] # NoJob => hand[a] \in ApiJobs
    /\ hand["main"] # NoJob <=> main.pc \in {"handle", "post"}
    /\ hand["main"] # NoJob => (main.type \in StackTypes <=> hand["main"] \in StackJobs)
    /\ hand["callback"] # NoJob <=> main.pc = "post"
    /\ hand["callback"] # NoJob => hand["callback"] \in StackJobs

(* The type of a job that waits says which pool it is from.                *)
Fits ==
    \A i \in 1 .. Len(mbox) :
        /\ mbox[i].type \in StackTypes <=> mbox[i].job \in StackJobs
        /\ mbox[i].type = "EXIT" <=> mbox[i].job = ExitJob

(* EXIT is posted once.                                                    *)
NoExit == exit = "no" => \A i \in 1 .. Len(mbox) : mbox[i].job # ExitJob

Pools == JobsTyped /\ JobsConserved
IInv == TypeOK /\ JobsConserved /\ InHand /\ Fits /\ NoExit

-----------------------------------------------------------------------------
(* What is done to the jobs keeps each in one place.                       *)
LEMMA FetchKeeps ==
    ASSUME Pools, NEW t \in Threads, hand[t] = NoJob, Fetch(t)
    PROVE  /\ Pools'
           /\ mbox' = mbox
           /\ \E job \in StackJobs : hand' = [hand EXCEPT ![t] = job]
<1>1. PICK job \in avail :
        /\ avail' = avail \ {job} /\ hand' = [hand EXCEPT ![t] = job]
        /\ apiAvail' = apiAvail /\ mbox' = mbox
  BY DEF Fetch
<1>2. job \in StackJobs /\ job \in Jobs /\ job # NoJob
  BY JobAssumption DEF Pools, JobsConserved, PoolsKeepTheirOwn, Jobs
<1>3. JobsTyped'
  BY <1>1, <1>2 DEF Pools, JobsTyped
<1>4. PoolsKeepTheirOwn' /\ QueuedOnce'
  BY <1>1 DEF Pools, JobsConserved, PoolsKeepTheirOwn, QueuedOnce
<1>5. \A s \in Threads : hand'[s] = IF s = t THEN job ELSE hand[s]
  BY <1>1 DEF Pools, JobsTyped
<1>6. ~Held(job) /\ ~Queued(job)
  BY <1>2 DEF Pools, JobsConserved, Apart
<1>7. \A j \in Jobs : (Held(j)' <=> Held(j) \/ j = job) /\ (Queued(j)' <=> Queued(j))
  <2> TAKE j \in Jobs
  <2>1. j # NoJob
    BY JobAssumption
  <2> QED BY <1>1, <1>5, <2>1 DEF Held, Queued
<1>8. HeldOnce'
  BY <1>5, <1>6 DEF Pools, JobsConserved, HeldOnce, Held
<1>9. job \notin apiAvail
  BY <1>2, JobAssumption DEF Pools, JobsConserved, PoolsKeepTheirOwn
<1>10. Apart' /\ NoneLost'
  BY <1>1, <1>6, <1>7, <1>9 DEF Pools, JobsConserved, Apart, NoneLost
<1> QED BY <1>1, <1>2, <1>3, <1>4, <1>8, <1>10 DEF Pools, JobsConserved

LEMMA ApiFetchKeeps ==
    ASSUME Pools, NEW t \in Threads, hand[t] = NoJob, ApiFetch(t)
    PROVE  /\ Pools'
           /\ mbox' = mbox
           /\ \E job \in ApiJobs : hand' = [hand EXCEPT ![t] = job]
<1>1. PICK job \in apiAvail :
        /\ apiAvail' = apiAvail \ {job} /\ hand' = [hand EXCEPT ![t] = job]
        /\ avail' = avail /\ mbox' = mbox
  BY DEF ApiFetch
<1>2. job \in ApiJobs /\ job \in Jobs /\ job # NoJob
  BY JobAssumption DEF Pools, JobsConserved, PoolsKeepTheirOwn, Jobs
<1>3. JobsTyped'
  BY <1>1, <1>2 DEF Pools, JobsTyped
<1>4. PoolsKeepTheirOwn' /\ QueuedOnce'
  BY <1>1 DEF Pools, JobsConserved, PoolsKeepTheirOwn, QueuedOnce
<1>5. \A s \in Threads : hand'[s] = IF s = t THEN job ELSE hand[s]
  BY <1>1 DEF Pools, JobsTyped
<1>6. ~Held(job) /\ ~Queued(job)
  BY <1>2 DEF Pools, JobsConserved, Apart
<1>7. \A j \in Jobs : (Held(j)' <=> Held(j) \/ j = job) /\ (Queued(j)' <=> Queued(j))
  <2> TAKE j \in Jobs
  <2>1. j # NoJob
    BY JobAssumption
  <2> QED BY <1>1, <1>5, <2>1 DEF Held, Queued
<1>8. HeldOnce'
  BY <1>5, <1>6 DEF Pools, JobsConserved, HeldOnce, Held
<1>9. job \notin avail
  BY <1>2, JobAssumption DEF Pools, JobsConserved, PoolsKeepTheirOwn
<1>10. Apart' /\ NoneLost'
  BY <1>1, <1>6, <1>7, <1>9 DEF Pools, JobsConserved, Apart, NoneLost
<1> QED BY <1>1, <1>2, <1>3, <1>4, <1>8, <1>10 DEF Pools, JobsConserved

(* What is appended to the mailbox is found at its end.                    *)
LEMMA Appended ==
    ASSUME JobsTyped, NEW e \in Entries, mbox' = Append(mbox, e)
    PROVE  /\ mbox' \in Seq(Entries)
           /\ Len(mbox) \in Nat /\ Len(mbox') = Len(mbox) + 1
           /\ \A i \in 1 .. Len(mbox) : mbox'[i] = mbox[i]
           /\ mbox'[Len(mbox')] = e
BY DEF JobsTyped

LEMMA PostKeeps ==
    ASSUME Pools, NEW t \in Threads, hand[t] # NoJob,
           NEW type \in Types, NEW port \in Ports \cup {Free}, Post(t, type, port)
    PROVE  /\ Pools'
           /\ mbox' = Append(mbox, Entry(hand[t], type, port))
           /\ hand' = [hand EXCEPT ![t] = NoJob]
<1>0. PICK job : job = hand[t]
  OBVIOUS
<1> DEFINE e == Entry(job, type, port)
<1>1. /\ mbox' = Append(mbox, e) /\ hand' = [hand EXCEPT ![t] = NoJob]
      /\ avail' = avail /\ apiAvail' = apiAvail
  BY <1>0 DEF Post
<1>2. job \in Jobs /\ job # NoJob
  BY <1>0 DEF Pools, JobsTyped
<1>3. e \in Entries /\ e.job = job
  BY <1>2 DEF Entry, Entries
<1> HIDE DEF e
<1>4. /\ mbox' \in Seq(Entries)
      /\ Len(mbox) \in Nat /\ Len(mbox') = Len(mbox) + 1
      /\ \A i \in 1 .. Len(mbox) : mbox'[i] = mbox[i]
      /\ mbox'[Len(mbox')] = e
  BY <1>1, <1>3, Appended DEF Pools
<1>5. JobsTyped'
  BY <1>1, <1>4 DEF Pools, JobsTyped
<1>6. \A s \in Threads : hand'[s] = IF s = t THEN NoJob ELSE hand[s]
  BY <1>1 DEF Pools, JobsTyped
<1>7. ~Queued(job) /\ Held(job) /\ job \notin avail \cup apiAvail
  BY <1>0, <1>2 DEF Pools, JobsConserved, Apart, Held
<1>8. \A j \in Jobs : Held(j)' <=> Held(j) /\ j # job
  <2> TAKE j \in Jobs
  <2>1. j # NoJob
    BY JobAssumption
  <2>2. \A s \in Threads : hand[s] = job => s = t
    BY <1>0, <1>2 DEF Pools, JobsConserved, HeldOnce
  <2> QED BY <1>0, <1>2, <1>6, <2>1, <2>2 DEF Held
<1>9. \A j : Queued(j)' <=> Queued(j) \/ j = job
  <2> TAKE j
  <2>1. Queued(j)' => Queued(j) \/ j = job
    BY <1>3, <1>4 DEF Queued
  <2>2. Queued(j) => Queued(j)'
    BY <1>4 DEF Queued
  <2>3. Queued(job)'
    BY <1>3, <1>4 DEF Queued
  <2> QED BY <2>1, <2>2, <2>3
<1>10. QueuedOnce'
  <2> SUFFICES ASSUME NEW i \in 1 .. Len(mbox'), NEW j \in 1 .. Len(mbox'),
                      mbox'[i].job = mbox'[j].job
               PROVE  i = j
    BY DEF QueuedOnce
  <2>1. \A k \in 1 .. Len(mbox) : mbox'[k].job # job
    BY <1>4, <1>7 DEF Queued
  <2>2. CASE i \in 1 .. Len(mbox) /\ j \in 1 .. Len(mbox)
    BY <1>4, <2>2 DEF Pools, JobsConserved, QueuedOnce
  <2>3. CASE i = Len(mbox') \/ j = Len(mbox')
    BY <1>3, <1>4, <2>1, <2>3
  <2> QED BY <1>4, <2>2, <2>3
<1>11. PoolsKeepTheirOwn' /\ HeldOnce'
  BY <1>1, <1>6 DEF Pools, JobsConserved, PoolsKeepTheirOwn, HeldOnce
<1>12. Apart' /\ NoneLost'
  BY <1>1, <1>7, <1>8, <1>9 DEF Pools, JobsConserved, Apart, NoneLost
<1> QED BY <1>0, <1>1, <1>5, <1>10, <1>11, <1>12 DEF Pools, JobsConserved, e

(* The main thread takes the first job of the mailbox.                     *)
LEMMA Shifted ==
    ASSUME JobsTyped, mbox # <<>>, mbox' = Tail(mbox)
    PROVE  /\ mbox' \in Seq(Entries)
           /\ Len(mbox) \in Nat \ {0} /\ Len(mbox') = Len(mbox) - 1
           /\ \A i \in 1 .. Len(mbox') : mbox'[i] = mbox[i + 1]
           /\ Head(mbox) = mbox[1] /\ mbox[1] \in Entries
BY DEF JobsTyped

LEMMA TakeKeeps ==
    ASSUME Pools, mbox # <<>>, hand["main"] = NoJob, Head(mbox).job \in Jobs,
           mbox' = Tail(mbox), hand' = [hand EXCEPT !["main"] = Head(mbox).job],
           avail' = avail, apiAvail' = apiAvail
    PROVE  Pools'
<1>0. PICK job : job = Head(mbox).job
  OBVIOUS
<1>1. /\ mbox' \in Seq(Entries)
      /\ Len(mbox) \in Nat \ {0} /\ Len(mbox') = Len(mbox) - 1
      /\ \A i \in 1 .. Len(mbox') : mbox'[i] = mbox[i + 1]
      /\ job = mbox[1].job
  BY <1>0, Shifted DEF Pools
<1>2. "main" \in Threads /\ job \in Jobs /\ job # NoJob
  BY <1>0, JobAssumption DEF Threads
<1>3. hand' = [hand EXCEPT !["main"] = job]
  BY <1>0
<1>4. JobsTyped'
  BY <1>1, <1>2, <1>3 DEF Pools, JobsTyped
<1>5. \A s \in Threads : hand'[s] = IF s = "main" THEN job ELSE hand[s]
  BY <1>3 DEF Pools, JobsTyped
<1>6. Queued(job)
  BY <1>1 DEF Queued
<1>7. ~Held(job) /\ job \notin avail \cup apiAvail
  BY <1>2, <1>6 DEF Pools, JobsConserved, Apart
<1>8. \A j \in Jobs : Held(j)' <=> Held(j) \/ j = job
  <2> TAKE j \in Jobs
  <2>1. j # NoJob
    BY JobAssumption
  <2> QED BY <1>2, <1>5, <2>1 DEF Held
<1>9. \A j : Queued(j)' <=> Queued(j) /\ j # job
  <2> TAKE j
  <2>1. ASSUME NEW i \in 1 .. Len(mbox'), mbox'[i].job = j
        PROVE  Queued(j) /\ j # job
    <3>1. i + 1 \in 1 .. Len(mbox) /\ mbox[i + 1].job = j /\ i + 1 # 1 /\ 1 \in 1 .. Len(mbox)
      BY <1>1, <2>1
    <3> QED BY <1>1, <3>1 DEF Pools, JobsConserved, QueuedOnce, Queued
  <2>2. ASSUME NEW i \in 1 .. Len(mbox), mbox[i].job = j, j # job
        PROVE  \E k \in 1 .. Len(mbox') : mbox'[k].job = j
    <3>1. i # 1 /\ i - 1 \in 1 .. Len(mbox') /\ (i - 1) + 1 = i
      BY <1>1, <2>2
    <3>2. mbox'[i - 1].job = j
      BY <1>1, <2>2, <3>1
    <3> QED BY <3>1, <3>2
  <2> QED BY <2>1, <2>2 DEF Queued
<1>10. QueuedOnce'
  <2> SUFFICES ASSUME NEW i \in 1 .. Len(mbox'), NEW j \in 1 .. Len(mbox'),
                      mbox'[i].job = mbox'[j].job
               PROVE  i = j
    BY DEF QueuedOnce
  <2>1. i + 1 \in 1 .. Len(mbox) /\ j + 1 \in 1 .. Len(mbox)
    BY <1>1
  <2>2. mbox[i + 1].job = mbox[j + 1].job
    BY <1>1
  <2>3. i + 1 = j + 1
    BY <2>1, <2>2 DEF Pools, JobsConserved, QueuedOnce
  <2> QED BY <1>1, <2>3
<1>11. PoolsKeepTheirOwn' /\ HeldOnce'
  BY <1>5, <1>7 DEF Pools, JobsConserved, PoolsKeepTheirOwn, HeldOnce, Held
<1>12. Apart' /\ NoneLost'
  BY <1>7, <1>8, <1>9 DEF Pools, JobsConserved, Apart, NoneLost
<1> QED BY <1>4, <1>10, <1>11, <1>12 DEF Pools, JobsConserved

(* The main thread returns the job it has in hand.                         *)
LEMMA ReturnKeeps ==
    ASSUME Pools, hand["main"] # NoJob,
           hand' = [hand EXCEPT !["main"] = NoJob], mbox' = mbox,
           \/ /\ hand["main"] \in StackJobs
              /\ avail' = avail \cup {hand["main"]} /\ apiAvail' = apiAvail
           \/ /\ hand["main"] \in ApiJobs
              /\ apiAvail' = apiAvail \cup {hand["main"]} /\ avail' = avail
    PROVE  Pools'
<1>0. PICK job : job = hand["main"]
  OBVIOUS
<1>1. "main" \in Threads /\ job \in Jobs /\ job # NoJob
  BY <1>0 DEF Threads, Jobs
<1>2. JobsTyped' /\ PoolsKeepTheirOwn' /\ QueuedOnce'
  BY <1>0, <1>1 DEF Pools, JobsTyped, JobsConserved, PoolsKeepTheirOwn, QueuedOnce
<1>3. \A s \in Threads : hand'[s] = IF s = "main" THEN NoJob ELSE hand[s]
  BY DEF Pools, JobsTyped
<1>4. Held(job) /\ ~Queued(job)
  BY <1>0, <1>1 DEF Pools, JobsConserved, Apart, Held
<1>5. \A j \in Jobs : (Held(j)' <=> Held(j) /\ j # job) /\ (Queued(j)' <=> Queued(j))
  <2> TAKE j \in Jobs
  <2>1. j # NoJob
    BY JobAssumption
  <2>2. \A s \in Threads : hand[s] = job => s = "main"
    BY <1>0, <1>1 DEF Pools, JobsConserved, HeldOnce
  <2> QED BY <1>0, <1>1, <1>3, <2>1, <2>2 DEF Held, Queued
<1>6. HeldOnce'
  BY <1>3 DEF Pools, JobsConserved, HeldOnce
<1>7. avail' \cup apiAvail' = avail \cup apiAvail \cup {job}
  BY <1>0
<1>8. Apart' /\ NoneLost'
  BY <1>4, <1>5, <1>7 DEF Pools, JobsConserved, Apart, NoneLost
<1> QED BY <1>2, <1>6, <1>8 DEF Pools, JobsConserved

(* EXIT is no job of a pool.                                               *)
LEMMA ExitKeeps ==
    ASSUME Pools, \A i \in 1 .. Len(mbox) : mbox[i].job # ExitJob,
           mbox' = Append(mbox, Entry(ExitJob, "EXIT", Free)),
           hand' = hand, avail' = avail, apiAvail' = apiAvail
    PROVE  Pools'
<1> DEFINE e == Entry(ExitJob, "EXIT", Free)
<1>1. e \in Entries /\ e.job = ExitJob
  BY DEF Entry, Entries, Types
<1> HIDE DEF e
<1>2. /\ mbox' \in Seq(Entries)
      /\ Len(mbox) \in Nat /\ Len(mbox') = Len(mbox) + 1
      /\ \A i \in 1 .. Len(mbox) : mbox'[i] = mbox[i]
      /\ mbox'[Len(mbox')] = e
  BY <1>1, Appended DEF Pools, e
<1>3. JobsTyped' /\ PoolsKeepTheirOwn' /\ HeldOnce'
  BY <1>2 DEF Pools, JobsTyped, JobsConserved, PoolsKeepTheirOwn, HeldOnce
<1>4. \A j \in Jobs : (Queued(j)' <=> Queued(j)) /\ (Held(j)' <=> Held(j))
  <2> TAKE j \in Jobs
  <2>1. j # ExitJob
    BY JobAssumption
  <2> QED BY <1>1, <1>2, <2>1 DEF Queued, Held
<1>5. QueuedOnce'
  <2> SUFFICES ASSUME NEW i \in 1 .. Len(mbox'), NEW j \in 1 .. Len(mbox'),
                      mbox'[i].job = mbox'[j].job
               PROVE  i = j
    BY DEF QueuedOnce
  <2>1. CASE i \in 1 .. Len(mbox) /\ j \in 1 .. Len(mbox)
    BY <1>2, <2>1 DEF Pools, JobsConserved, QueuedOnce
  <2>2. CASE i = Len(mbox') \/ j = Len(mbox')
    BY <1>1, <1>2, <2>2
  <2> QED BY <1>2, <2>1, <2>2
<1>6. Apart' /\ NoneLost'
  BY <1>4 DEF Pools, JobsConserved, Apart, NoneLost
<1> QED BY <1>3, <1>5, <1>6 DEF Pools, JobsConserved

(* What a post leaves behind fits, when the type says whose job it is.     *)
LEMMA PostFits ==
    ASSUME IInv, NEW t \in Threads, hand[t] # NoJob, NEW type \in Types \ {"EXIT"},
           NEW port \in Ports \cup {Free},
           type \in StackTypes <=> hand[t] \in StackJobs,
           Post(t, type, port), exit' = exit
    PROVE  Pools' /\ Fits' /\ NoExit'
<1> DEFINE e == Entry(hand[t], type, port)
<1>1. Pools' /\ mbox' = Append(mbox, e)
  BY PostKeeps DEF IInv, TypeOK, Pools
<1>2. hand[t] \in Jobs /\ hand[t] # ExitJob
  BY JobAssumption DEF IInv, TypeOK, JobsTyped
<1>3. e \in Entries /\ e.job = hand[t] /\ e.type = type
  BY <1>2 DEF Entry, Entries
<1> HIDE DEF e
<1>4. /\ Len(mbox) \in Nat /\ Len(mbox') = Len(mbox) + 1
      /\ \A i \in 1 .. Len(mbox) : mbox'[i] = mbox[i]
      /\ mbox'[Len(mbox')] = e
  BY <1>1, <1>3, Appended DEF IInv, TypeOK
<1>5. Fits'
  BY <1>2, <1>3, <1>4 DEF IInv, Fits
<1>6. NoExit'
  BY <1>2, <1>3, <1>4 DEF IInv, NoExit
<1> QED BY <1>1, <1>5, <1>6

LEMMA SameFits == ASSUME IInv, mbox' = mbox, exit' = exit PROVE Fits' /\ NoExit'
BY DEF IInv, Fits, NoExit

LEMMA SameJobs ==
    ASSUME IInv, UNCHANGED jobVars, exit' = exit
    PROVE  Pools' /\ Fits' /\ NoExit'
BY DEF IInv, TypeOK, jobVars, Pools, JobsTyped, JobsConserved, PoolsKeepTheirOwn, QueuedOnce,
       HeldOnce, Apart, NoneLost, Queued, Held, Fits, NoExit

-----------------------------------------------------------------------------
(* The threads are different, so what one does leaves alone what another   *)
(* has in hand.                                                            *)
LEMMA ThreadsDiffer ==
    /\ \A p \in Ports : p \in Threads /\ p \notin Apps /\ p # "main" /\ p # "callback"
    /\ \A a \in Apps : a \in Threads /\ a \notin Ports /\ a # "main" /\ a # "callback"
    /\ "main" \in Threads /\ "callback" \in Threads
BY JobAssumption DEF Threads

(* No job of the stack is one of the application.                          *)
LEMMA JobsDiffer ==
    /\ NoJob \notin StackJobs /\ NoJob \notin ApiJobs
    /\ \A job \in StackJobs : job \notin ApiJobs
BY JobAssumption DEF Jobs

-----------------------------------------------------------------------------
(* The DL thread of a port keeps the invariant.                            *)
LEMMA DlKeeps ==
    ASSUME IInv, NEW p \in Ports, DlThread(p) \/ DlWaits(p)
    PROVE  IInv'
<1> USE DEF IInv
<1>1. Pools /\ p \in Threads
  BY ThreadsDiffer DEF TypeOK, Pools
<1>2. CASE DL_Control_ind(p) \/ FetchPdEvent(p)
  <2>1. /\ hand[p] = NoJob /\ Fetch(p)
        /\ dl' = [dl EXCEPT ![p] = IF DL_Control_ind(p) THEN "post" ELSE "event"]
        /\ UNCHANGED <<main, app, mtxPdin, exit, halted>>
    BY <1>2 DEF DL_Control_ind, FetchPdEvent, InHand
  <2>2. /\ Pools' /\ mbox' = mbox
        /\ \E job \in StackJobs : hand' = [hand EXCEPT ![p] = job]
    BY <1>1, <2>1, FetchKeeps
  <2>3. TypeOK'
    BY <2>1, <2>2 DEF TypeOK, Pools
  <2>4. \A t \in Threads \ {p} : hand'[t] = hand[t]
    BY <2>2 DEF TypeOK, JobsTyped
  <2>5. hand'[p] \in StackJobs
    BY <1>1, <2>2 DEF TypeOK, JobsTyped
  <2>6. InHand'
    BY <2>1, <2>4, <2>5, ThreadsDiffer, JobsDiffer DEF InHand, TypeOK
  <2>7. Fits' /\ NoExit'
    BY <2>1, <2>2, SameFits
  <2> QED BY <2>2, <2>3, <2>6, <2>7 DEF Pools
<1>3. CASE DlPost(p) \/ PostPdEvent(p)
  <2> DEFINE type == IF DlPost(p) THEN "IND" ELSE "PD_EVENT"
             port == IF DlPost(p) THEN Free ELSE p
  <2>1. /\ hand[p] # NoJob /\ Post(p, type, port) /\ exit' = exit
        /\ \E pc \in {"idle", "input"} : dl' = [dl EXCEPT ![p] = pc]
        /\ mtxPdin' \in [Ports -> {Free, "dl", "app"}]
        /\ UNCHANGED <<main, app, halted>>
    BY <1>3 DEF DlPost, PostPdEvent, CanPost, TypeOK
  <2>2. type \in Types \ {"EXIT"} /\ type \in StackTypes /\ port \in Ports \cup {Free}
    BY DEF Types, StackTypes, ApiTypes
  <2>3. hand[p] \in StackJobs
    BY <2>1 DEF InHand
  <2> HIDE DEF type, port
  <2>4. Pools' /\ Fits' /\ NoExit' /\ hand' = [hand EXCEPT ![p] = NoJob]
    BY <1>1, <2>1, <2>2, <2>3, PostFits DEF Post
  <2>5. TypeOK'
    BY <2>1, <2>4 DEF TypeOK, Pools
  <2>6. \A t \in Threads : hand'[t] = IF t = p THEN NoJob ELSE hand[t]
    BY <2>4 DEF TypeOK, JobsTyped
  <2>7. InHand'
    BY <1>1, <2>1, <2>6, ThreadsDiffer DEF InHand, TypeOK
  <2> QED BY <2>4, <2>5, <2>7 DEF Pools
<1>4. CASE LockInputs(p)
  <2>1. UNCHANGED <<jobVars, main, app, exit, halted>>
    BY <1>4 DEF LockInputs
  <2>2. Pools' /\ Fits' /\ NoExit'
    BY <2>1, SameJobs
  <2>3. TypeOK'
    BY <1>4, <2>1, <2>2 DEF TypeOK, Pools, LockInputs
  <2>4. InHand'
    BY <1>4, <2>1 DEF InHand, LockInputs, TypeOK, jobVars
  <2> QED BY <2>2, <2>3, <2>4 DEF Pools
<1> QED BY <1>2, <1>3, <1>4 DEF DlThread, DlWaits

(* So does a thread of the application when it reads the inputs.           *)
LEMMA ReadKeeps ==
    ASSUME IInv, NEW a \in Apps, app[a].pc # "post",
           UNCHANGED <<jobVars, main, dl, exit, halted>>,
           NEW pc \in {"lock", "read", "idle"}, NEW q \in Ports \cup {Free},
           app' = [app EXCEPT ![a] = [pc |-> pc, port |-> q]],
           mtxPdin' \in [Ports -> {Free, "dl", "app"}]
    PROVE  IInv'
<1> USE DEF IInv
<1>1. Pools' /\ Fits' /\ NoExit'
  BY SameJobs
<1>2. TypeOK'
  BY <1>1 DEF TypeOK, Pools
<1>3. \A b \in Apps : app'[b].pc = "post" <=> app[b].pc = "post"
  BY DEF TypeOK
<1>4. InHand'
  BY <1>3 DEF InHand, jobVars
<1> QED BY <1>1, <1>2, <1>4 DEF Pools

(* And when it begins a service or goes on with it.                        *)
LEMMA CallKeeps ==
    ASSUME IInv, NEW a \in Apps, Request(a) \/ \E p \in Ports : SMI_PDIn_req(a, p)
    PROVE  IInv'
<1> USE DEF IInv
<1>1. Pools /\ a \in Threads
  BY ThreadsDiffer DEF TypeOK, Pools
<1>2. CASE Request(a)
  <2>1. /\ hand[a] = NoJob /\ ApiFetch(a)
        /\ app' = [app EXCEPT ![a] = [pc |-> "post", port |-> Free]]
        /\ UNCHANGED <<main, dl, mtxPdin, exit, halted>>
    BY <1>2 DEF Request, Calls, AppGoes, InHand
  <2>2. /\ Pools' /\ mbox' = mbox
        /\ \E job \in ApiJobs : hand' = [hand EXCEPT ![a] = job]
    BY <1>1, <2>1, ApiFetchKeeps
  <2>3. TypeOK'
    BY <2>1, <2>2 DEF TypeOK, Pools
  <2>4. \A t \in Threads \ {a} : hand'[t] = hand[t]
    BY <2>2 DEF TypeOK, JobsTyped
  <2>5. hand'[a] \in ApiJobs /\ app'[a].pc = "post"
    BY <1>1, <2>1, <2>2 DEF TypeOK, JobsTyped
  <2>6. InHand'
    BY <2>1, <2>4, <2>5, ThreadsDiffer, JobsDiffer DEF InHand, TypeOK
  <2>7. Fits' /\ NoExit'
    BY <2>1, <2>2, SameFits
  <2> QED BY <2>2, <2>3, <2>6, <2>7 DEF Pools
<1>3. ASSUME NEW p \in Ports, SMI_PDIn_req(a, p)
      PROVE  IInv'
  <2>1. /\ app[a].pc # "post" /\ UNCHANGED <<jobVars, main, dl, exit, halted>>
        /\ app' = [app EXCEPT ![a] = [pc |-> "lock", port |-> p]]
        /\ mtxPdin' \in [Ports -> {Free, "dl", "app"}]
    BY <1>3 DEF SMI_PDIn_req, AppGoes, Calls, TypeOK
  <2> QED BY <2>1, ReadKeeps
<1> QED BY <1>2, <1>3

LEMMA AppKeeps ==
    ASSUME IInv, NEW a \in Apps, AppPost(a) \/ LockRead(a) \/ Read(a)
    PROVE  IInv'
<1> USE DEF IInv
<1>1. Pools /\ a \in Threads /\ app[a].port \in Ports \cup {Free}
  BY ThreadsDiffer DEF TypeOK, Pools
<1>2. CASE AppPost(a)
  <2>1. PICK type \in ApiTypes : Post(a, type, Free)
    BY <1>2 DEF AppPost
  <2>2. /\ hand[a] # NoJob /\ exit' = exit
        /\ app' = [app EXCEPT ![a] = AppIdle]
        /\ UNCHANGED <<main, dl, mtxPdin, halted>>
    BY <1>2 DEF AppPost, CanPost
  <2>3. type \in Types \ {"EXIT"} /\ type \notin StackTypes
    BY DEF Types, StackTypes, ApiTypes
  <2>4. hand[a] \notin StackJobs
    BY <2>2, JobsDiffer DEF InHand
  <2>5. Pools' /\ Fits' /\ NoExit' /\ hand' = [hand EXCEPT ![a] = NoJob]
    BY <1>1, <2>1, <2>2, <2>3, <2>4, PostFits DEF Post
  <2>6. TypeOK'
    BY <2>2, <2>5 DEF TypeOK, Pools, AppIdle
  <2>7. \A t \in Threads : hand'[t] = IF t = a THEN NoJob ELSE hand[t]
    BY <2>5 DEF TypeOK, JobsTyped
  <2>8. InHand'
    BY <1>1, <2>2, <2>7, ThreadsDiffer DEF InHand, TypeOK, AppIdle
  <2> QED BY <2>5, <2>6, <2>8 DEF Pools
<1>3. CASE LockRead(a)
  <2>1. /\ app[a].pc # "post" /\ UNCHANGED <<jobVars, main, dl, exit, halted>>
        /\ app' = [app EXCEPT ![a] = [pc |-> "read", port |-> app[a].port]]
        /\ mtxPdin' \in [Ports -> {Free, "dl", "app"}]
    BY <1>3 DEF LockRead, AppGoes, TypeOK
  <2> QED BY <1>1, <2>1, ReadKeeps
<1>4. CASE Read(a)
  <2>1. /\ app[a].pc # "post" /\ UNCHANGED <<jobVars, main, dl, exit, halted>>
        /\ app' = [app EXCEPT ![a] = [pc |-> "idle", port |-> Free]]
        /\ mtxPdin' \in [Ports -> {Free, "dl", "app"}]
    BY <1>4 DEF Read, AppIdle, TypeOK
  <2> QED BY <2>1, ReadKeeps
<1> QED BY <1>2, <1>3, <1>4

(* So does the shutdown.                                                   *)
LEMMA DeinitKeeps == IInv /\ Deinit => IInv'
<1> SUFFICES ASSUME IInv, Deinit PROVE IInv'
  OBVIOUS
<1> USE DEF IInv
<1> DEFINE e == Entry(ExitJob, "EXIT", Free)
<1>1. /\ \A i \in 1 .. Len(mbox) : mbox[i].job # ExitJob
      /\ mbox' = Append(mbox, e) /\ exit' = "posted"
      /\ UNCHANGED <<avail, apiAvail, hand, main, dl, app, mtxPdin, halted>>
  BY DEF Deinit, NoExit
<1>2. Pools'
  BY <1>1, ExitKeeps DEF TypeOK, Pools
<1>3. e \in Entries /\ e.job = ExitJob /\ e.type = "EXIT"
  BY DEF Entry, Entries, Types
<1> HIDE DEF e
<1>4. /\ Len(mbox) \in Nat /\ Len(mbox') = Len(mbox) + 1
      /\ \A i \in 1 .. Len(mbox) : mbox'[i] = mbox[i]
      /\ mbox'[Len(mbox')] = e
  BY <1>1, <1>3, Appended DEF TypeOK
<1>5. ExitJob \notin StackJobs /\ "EXIT" \notin StackTypes
  BY JobAssumption DEF Jobs, StackTypes
<1>6. Fits' /\ NoExit'
  BY <1>1, <1>3, <1>4, <1>5 DEF Fits, NoExit
<1>7. TypeOK' /\ InHand'
  BY <1>1, <1>2 DEF TypeOK, Pools, InHand
<1> QED BY <1>2, <1>6, <1>7 DEF Pools

(* So does the main thread.                                                *)
LEMMA TakeFits ==
    ASSUME IInv, mbox # <<>>, mbox' = Tail(mbox), exit' = exit \/ exit' # "no"
    PROVE  Fits' /\ NoExit'
<1>1. /\ Len(mbox) \in Nat \ {0} /\ Len(mbox') = Len(mbox) - 1
      /\ \A i \in 1 .. Len(mbox') : mbox'[i] = mbox[i + 1]
  BY Shifted DEF IInv, TypeOK
<1>2. \A i \in 1 .. Len(mbox') : i + 1 \in 1 .. Len(mbox)
  BY <1>1
<1> QED BY <1>1, <1>2 DEF IInv, Fits, NoExit

LEMMA MainKeeps == IInv /\ MainThread => IInv'
<1> SUFFICES ASSUME IInv, MainThread PROVE IInv'
  OBVIOUS
<1> USE DEF IInv
<1>1. Pools /\ "main" \in Threads /\ "callback" \in Threads
  BY ThreadsDiffer DEF TypeOK, Pools
<1>2. CASE Take
  <2>1. /\ mbox # <<>> /\ Head(mbox) = mbox[1] /\ mbox[1] \in Entries
        /\ 1 \in 1 .. Len(mbox)
    BY <1>2, <1>1, Shifted DEF Take, Pools
  <2>2. /\ Head(mbox).job \in Jobs /\ Head(mbox).type \in Types
        /\ Head(mbox).type \in StackTypes <=> Head(mbox).job \in StackJobs
        /\ Head(mbox).port \in Ports \cup {Free}
    BY <1>2, <2>1 DEF Take, Fits, Entries
  <2>3. Pools' /\ Fits' /\ NoExit'
    BY <1>1, <1>2, <2>1, <2>2, TakeKeeps, TakeFits DEF Take, InHand
  <2>4. main' \in [pc : {"fetch", "handle", "post", "exited"}, type : Types \cup {"NONE"},
                   port : Ports \cup {Free}, posts : 0 .. MaxPosts]
    BY <1>2, <2>2, JobAssumption DEF Take
  <2>5. TypeOK'
    BY <1>2, <2>3, <2>4 DEF TypeOK, Pools, Take
  <2>6. \A t \in Threads : hand'[t] = IF t = "main" THEN Head(mbox).job ELSE hand[t]
    BY <1>2 DEF Take, TypeOK, JobsTyped
  <2>7. /\ hand'["main"] = Head(mbox).job /\ Head(mbox).job # NoJob
        /\ main'.pc = "handle" /\ main'.type = Head(mbox).type /\ hand'["callback"] = NoJob
    BY <1>1, <1>2, <2>2, <2>6, JobAssumption DEF Take, InHand
  <2>8. InHand'
    BY <1>1, <1>2, <2>2, <2>6, <2>7, ThreadsDiffer DEF Take, InHand
  <2> QED BY <2>3, <2>5, <2>8 DEF Pools
<1>3. CASE TakeExit
  <2>1. /\ mbox # <<>> /\ mbox[1] \in Entries /\ Head(mbox) = mbox[1]
        /\ mbox' \in Seq(Entries)
        /\ Len(mbox) \in Nat \ {0} /\ Len(mbox') = Len(mbox) - 1
        /\ \A i \in 1 .. Len(mbox') : mbox'[i] = mbox[i + 1]
    BY <1>1, <1>3, Shifted DEF TakeExit, Pools
  <2>2. mbox[1].job = ExitJob
    BY <1>3, <2>1 DEF TakeExit, Fits
  <2>3. UNCHANGED <<avail, apiAvail, hand, dl, app, mtxPdin, halted>>
    BY <1>3 DEF TakeExit
  <2>4. \A j \in Jobs : (Queued(j)' <=> Queued(j)) /\ (Held(j)' <=> Held(j))
    <3> TAKE j \in Jobs
    <3>1. j # ExitJob
      BY JobAssumption
    <3>2. ASSUME NEW i \in 1 .. Len(mbox), mbox[i].job = j
          PROVE  \E k \in 1 .. Len(mbox') : mbox'[k].job = j
      <4>1. i # 1 /\ i - 1 \in 1 .. Len(mbox') /\ (i - 1) + 1 = i
        BY <2>1, <2>2, <3>1, <3>2
      <4>2. mbox'[i - 1].job = j
        BY <2>1, <3>2, <4>1
      <4> QED BY <4>1, <4>2
    <3>3. ASSUME NEW i \in 1 .. Len(mbox'), mbox'[i].job = j
          PROVE  \E k \in 1 .. Len(mbox) : mbox[k].job = j
      <4>1. i + 1 \in 1 .. Len(mbox)
        BY <2>1
      <4> QED BY <2>1, <3>3, <4>1
    <3> QED BY <2>3, <3>2, <3>3 DEF Queued, Held
  <2>5. QueuedOnce'
    <3> SUFFICES ASSUME NEW i \in 1 .. Len(mbox'), NEW j \in 1 .. Len(mbox'),
                        mbox'[i].job = mbox'[j].job
                 PROVE  i = j
      BY DEF QueuedOnce
    <3>1. i + 1 \in 1 .. Len(mbox) /\ j + 1 \in 1 .. Len(mbox)
      BY <2>1
    <3>2. i + 1 = j + 1
      BY <2>1, <3>1 DEF JobsConserved, QueuedOnce
    <3> QED BY <2>1, <3>2
  <2>6. JobsConserved'
    BY <2>3, <2>4, <2>5 DEF JobsConserved, PoolsKeepTheirOwn, HeldOnce, Apart, NoneLost
  <2>7. Fits' /\ NoExit'
    BY <1>3, <2>1, TakeFits DEF TakeExit
  <2>8. TypeOK'
    BY <1>3, <2>1, <2>3 DEF TakeExit, TypeOK, JobsTyped
  <2>9. main.pc = "fetch" /\ main'.pc = "exited"
    BY <1>3 DEF TakeExit, TypeOK
  <2>10. InHand'
    BY <2>3, <2>9 DEF InHand
  <2> QED BY <2>6, <2>7, <2>8, <2>10
<1>4. CASE CallbackFetch
  <2>1. /\ hand["callback"] = NoJob /\ Fetch("callback")
        /\ UNCHANGED <<dl, app, mtxPdin, exit, halted>>
        /\ main.pc = "handle" /\ main' = [main EXCEPT !.pc = "post", !.posts = @ + 1]
    BY <1>4 DEF CallbackFetch, InHand
  <2>2. /\ Pools' /\ mbox' = mbox
        /\ \E job \in StackJobs : hand' = [hand EXCEPT !["callback"] = job]
    BY <1>1, <2>1, FetchKeeps
  <2>3. main.posts + 1 \in 0 .. MaxPosts
    BY <1>4, JobAssumption DEF CallbackFetch, TypeOK
  <2>4. TypeOK'
    BY <2>1, <2>2, <2>3 DEF TypeOK, Pools
  <2>5. \A t \in Threads \ {"callback"} : hand'[t] = hand[t]
    BY <2>2 DEF TypeOK, JobsTyped
  <2>6. hand'["callback"] \in StackJobs /\ main'.pc = "post" /\ main'.type = main.type
    BY <1>1, <2>1, <2>2 DEF TypeOK, JobsTyped
  <2>7. InHand'
    BY <2>1, <2>5, <2>6, ThreadsDiffer, JobsDiffer DEF InHand
  <2>8. Fits' /\ NoExit'
    BY <2>1, <2>2, SameFits
  <2> QED BY <2>2, <2>4, <2>7, <2>8 DEF Pools
<1>5. CASE CallbackPost
  <2>1. /\ hand["callback"] # NoJob /\ Post("callback", "IND", Free) /\ exit' = exit
        /\ UNCHANGED <<dl, app, mtxPdin, halted>>
        /\ main.pc = "post" /\ main' = [main EXCEPT !.pc = "handle"]
    BY <1>5 DEF CallbackPost, CanPost
  <2>2. "IND" \in Types \ {"EXIT"} /\ "IND" \in StackTypes 
    BY DEF Types, StackTypes
  <2>3. hand["callback"] \in StackJobs
    BY <2>1 DEF InHand
  <2>4. Pools' /\ Fits' /\ NoExit' /\ hand' = [hand EXCEPT !["callback"] = NoJob]
    BY <1>1, <2>1, <2>2, <2>3, PostFits DEF Post
  <2>5. TypeOK'
    BY <2>1, <2>4 DEF TypeOK, Pools
  <2>6. \A t \in Threads : hand'[t] = IF t = "callback" THEN NoJob ELSE hand[t]
    BY <2>4 DEF TypeOK, JobsTyped
  <2>7. main'.pc = "handle" /\ main'.type = main.type
    BY <2>1 DEF TypeOK
  <2>8. InHand'
    BY <1>1, <2>1, <2>6, <2>7, ThreadsDiffer DEF InHand
  <2> QED BY <2>4, <2>5, <2>8 DEF Pools
<1>6. CASE Return
  <2>1. main.pc = "handle" /\ hand["main"] # NoJob /\ hand["main"] \in Jobs
    BY <1>1, <1>6 DEF Return, InHand, TypeOK, JobsTyped
  <2>2. /\ hand' = [hand EXCEPT !["main"] = NoJob] /\ mbox' = mbox /\ main' = MainIdle
        /\ UNCHANGED <<dl, app, mtxPdin, exit, halted>>
    BY <1>6 DEF Return
  <2>3. \/ /\ hand["main"] \in StackJobs
           /\ avail' = avail \cup {hand["main"]} /\ apiAvail' = apiAvail
        \/ /\ hand["main"] \in ApiJobs
           /\ apiAvail' = apiAvail \cup {hand["main"]} /\ avail' = avail
    <3>1. CASE main.type \in StackTypes
      BY <1>6, <2>1, <3>1 DEF Return, ReturnTo, InHand
    <3>2. CASE main.type \notin StackTypes
      BY <1>6, <2>1, <3>2 DEF Return, ReturnTo, InHand, Jobs
    <3> QED BY <3>1, <3>2
  <2>4. Pools'
    BY <1>1, <2>1, <2>2, <2>3, ReturnKeeps
  <2>5. main' \in [pc : {"fetch", "handle", "post", "exited"}, type : Types \cup {"NONE"},
                   port : Ports \cup {Free}, posts : 0 .. MaxPosts]
    BY <2>2, JobAssumption DEF MainIdle
  <2>6. TypeOK'
    BY <2>2, <2>4, <2>5 DEF TypeOK, Pools
  <2>7. \A t \in Threads : hand'[t] = IF t = "main" THEN NoJob ELSE hand[t]
    BY <2>2 DEF TypeOK, JobsTyped
  <2>8. InHand'
    BY <1>1, <2>1, <2>2, <2>7, ThreadsDiffer DEF InHand, MainIdle
  <2>9. Fits' /\ NoExit'
    BY <2>2, SameFits
  <2> QED BY <2>4, <2>6, <2>8, <2>9 DEF Pools
<1> QED BY <1>2, <1>3, <1>4, <1>5, <1>6 DEF MainThread

-----------------------------------------------------------------------------
LEMMA InitKeeps == Init => IInv
<1> SUFFICES ASSUME Init PROVE IInv
  OBVIOUS
<1> USE DEF Init
<1>1. mbox = <<>> /\ Len(mbox) = 0 /\ mbox \in Seq(Entries)
  OBVIOUS
<1>2. \A t \in Threads : hand[t] = NoJob
  OBVIOUS
<1>3. 0 \in 0 .. MaxPosts
  BY JobAssumption
<1>4. TypeOK
  BY <1>1, <1>3 DEF TypeOK, JobsTyped, MainIdle, AppIdle, Jobs
<1>5. \A job \in Jobs : ~Queued(job) /\ ~Held(job)
  BY <1>1, <1>2, JobAssumption DEF Queued, Held
<1>6. JobsConserved
  BY <1>1, <1>2, <1>5 DEF JobsConserved, PoolsKeepTheirOwn, QueuedOnce, HeldOnce, Apart,
                          NoneLost, Jobs
<1>7. InHand
  BY <1>2, ThreadsDiffer DEF InHand, MainIdle, AppIdle
<1>8. Fits /\ NoExit
  BY <1>1 DEF Fits, NoExit
<1> QED BY <1>4, <1>6, <1>7, <1>8 DEF IInv

LEMMA StepKeeps == IInv /\ [Next]_vars => IInv'
<1> SUFFICES ASSUME IInv, [Next]_vars PROVE IInv'
  OBVIOUS
<1>1. ASSUME NEW p \in Ports, DlThread(p) \/ DlWaits(p) PROVE IInv'
  BY <1>1, DlKeeps
<1>2. ASSUME NEW a \in Apps, Request(a) \/ \E p \in Ports : SMI_PDIn_req(a, p) PROVE IInv'
  BY <1>2, CallKeeps
<1>3. ASSUME NEW a \in Apps, AppPost(a) \/ LockRead(a) \/ Read(a) PROVE IInv'
  BY <1>3, AppKeeps
<1>4. CASE Deinit
  BY <1>4, DeinitKeeps
<1>5. CASE MainThread
  BY <1>5, MainKeeps
<1>6. CASE NoneAvail \/ NoneApiAvail \/ NoRoom \/ UNCHANGED vars
  <2>1. /\ UNCHANGED <<jobVars, main, dl, app, mtxPdin, exit>>
        /\ halted' = TRUE \/ halted' = halted
    BY <1>6 DEF NoneAvail, NoneApiAvail, NoRoom, Assert, vars, jobVars
  <2>2. Pools' /\ Fits' /\ NoExit'
    BY <2>1, SameJobs
  <2>3. TypeOK' /\ InHand'
    BY <2>1, <2>2 DEF IInv, TypeOK, Pools, InHand, jobVars
  <2> QED BY <2>2, <2>3 DEF IInv, Pools
<1> QED BY <1>1, <1>2, <1>3, <1>4, <1>5, <1>6 DEF Next

LEMMA Invariance == Spec => []IInv
BY InitKeeps, StepKeeps, PTL DEF Spec

(* The variables have their types.                                         *)
THEOREM TypeCorrect == Spec => []TypeOK
<1>1. IInv => TypeOK
  BY DEF IInv
<1> QED BY <1>1, Invariance, PTL

(* No job is in two places and none is lost: however fetches, posts and    *)
(* returns of the threads interleave, iolink_main returns a job to the     *)
(* pool it was fetched from.                                               *)
THEOREM Conserved == Spec => []JobsConserved
<1>1. IInv => JobsConserved
  BY DEF IInv
<1> QED BY <1>1, Invariance, PTL

(* A job in hand is not among those that wait, and those are different     *)
(* jobs: fewer wait than there are jobs, and the mailbox has room for all. *)
LEMMA RoomForAll == IInv => PostsNeverFail
<1> SUFFICES ASSUME IInv, exit = "no", NEW t \in Threads, hand[t] # NoJob
             PROVE  Len(mbox) < Capacity
  BY DEF PostsNeverFail
<1> DEFINE others == Jobs \ {hand[t]}
           place == [i \in 1 .. Len(mbox) |-> mbox[i].job]
<1>1. hand[t] \in Jobs /\ mbox \in Seq(Entries) /\ Len(mbox) \in Nat
  BY DEF IInv, TypeOK, JobsTyped
<1>2. place \in Injection(1 .. Len(mbox), others)
  <2>1. \A i \in 1 .. Len(mbox) : mbox[i].job \in Jobs
    <3> TAKE i \in 1 .. Len(mbox)
    <3>1. mbox[i] \in Entries
      BY <1>1
    <3>2. mbox[i].job \in Jobs \cup {ExitJob}
      BY <3>1 DEF Entries
    <3> QED BY <3>2 DEF IInv, NoExit
  <2>2. \A i \in 1 .. Len(mbox) : mbox[i].job # hand[t]
    BY <1>1 DEF IInv, JobsConserved, Apart, Queued, Held
  <2>3. \A i, j \in 1 .. Len(mbox) : mbox[i].job = mbox[j].job => i = j
    BY DEF IInv, JobsConserved, QueuedOnce
  <2> QED BY <2>1, <2>2, <2>3 DEF Injection, IsInjective
<1>3. IsFiniteSet(Jobs) /\ Cardinality(Jobs) = Capacity /\ Capacity \in Nat
  <2>1. /\ IsFiniteSet(Jobs)
        /\ Cardinality(Jobs) = Cardinality(StackJobs) + Cardinality(ApiJobs)
                                 - Cardinality(StackJobs \cap ApiJobs)
    BY JobAssumption, FS_Union DEF Jobs
  <2>2. Cardinality(StackJobs \cap ApiJobs) = 0
    BY JobAssumption, FS_EmptySet
  <2>3. Cardinality(StackJobs) \in Nat /\ Cardinality(ApiJobs) \in Nat
    BY JobAssumption, FS_CardinalityType
  <2> QED BY <2>1, <2>2, <2>3 DEF Capacity
<1>4. IsFiniteSet(others) /\ Cardinality(others) = Capacity - 1
  BY <1>1, <1>3, FS_RemoveElement
<1>5. Cardinality(1 .. Len(mbox)) <= Cardinality(others)
  BY <1>2, <1>4, FS_Injection
<1>6. Cardinality(1 .. Len(mbox)) = Len(mbox)
  <2>1. 1 \in Int /\ Len(mbox) \in Int
    BY <1>1
  <2>2. Cardinality(1 .. Len(mbox)) = IF 1 > Len(mbox) THEN 0 ELSE Len(mbox) - 1 + 1
    BY <2>1, FS_Interval
  <2> QED BY <1>1, <2>2
<1> HIDE DEF others
<1> QED BY <1>1, <1>3, <1>4, <1>5, <1>6

(* Until the shutdown the assertions after os_mbox_post do not fail, for   *)
(* any number of jobs and of threads that post at once.                    *)
THEOREM RoomToPost == Spec => []PostsNeverFail
BY RoomForAll, Invariance, PTL
=============================================================================
