---------------------------- MODULE OnRequestJobs ----------------------------
(***************************************************************************)
(* What the threads of one i-link port share on the on-request path: the   *)
(* FIFO mailbox of the main thread and the service record of the           *)
(* application layer, which the main thread owns but the DL thread reads   *)
(* and writes as well.                                                     *)
(*                                                                         *)
(* A request is an identifier.  Its index, subindex and payload are        *)
(* abstracted to that identifier: the data a device returns for request r  *)
(* is the tag r, and a request the device has carried out is in "served".  *)
(***************************************************************************)
EXTENDS Naturals, Sequences, Functions

CONSTANTS
    Reqs,       \* requests of the application (SMI_DeviceRead/Write_req)
    DsReqs,     \* reads issued by the data storage client of the AL
    NoReq       \* "no request"

ASSUME RequestsAssumption ==
    /\ Reqs \cap DsReqs = {}
    /\ NoReq \notin Reqs \cup DsReqs

Ids == Reqs \cup DsReqs

(* Kinds of on-request service.  The index decides: 0 and 1 are direct     *)
(* parameter pages, from 2 on the ISDU channel is used, a write to index 0 *)
(* is refused by the AL, and the batch services are refused by the ODE.    *)
ReadKinds  == {"ReadParam", "ReadIsdu"}
WriteKinds == {"WriteParam", "WriteIsdu", "WriteBad"}
AllKinds   == ReadKinds \cup WriteKinds \cup {"Batch"}

(* Where a data octet comes from: the answer to request r, the idle        *)
(* exchange, a negative response, an event read, or nowhere.               *)
Tags == Ids \cup {"idle", "event", "negative", "wild", "none"}

(* A read confirmation of the AL carries a pointer to data_read and the    *)
(* length: as long as what was read, or longer.                            *)
Pointers == {"data_read", "data_read_longer"}

JobTypes ==
    {"SMI_RW", "SMI_CFG", "OD_START", "OD_STOP", "AL_REQ", "AL_CNF", "AL_ABORT",
     "READPARAM_CNF", "WRITEPARAM_CNF", "ISDU_CNF",
     "SM_CFG", "MODE_STARTUP", "MODE_OPERATE", "MODE_COMLOST", "MODE_INACTIVE",
     "DL_READ_CNF",
     "PORTMODE_OPERATE", "PORTMODE_COMLOST"}

Clients == {"ODE", "DS"}
Results == {"OK", "ERR", "BUSY"}

(* A job: what iolink_job_t carries.  "req" is the request the job is      *)
(* about; the confirmations of the code carry no such field, and the model *)
(* uses it there only in properties.                                       *)
Job == [type : JobTypes, client : Clients, req : Ids \cup {NoReq},
        kind : AllKinds, res : Results, val : Tags \cup Pointers]

MkJob(type, client, req, kind, res, val) ==
    [type |-> type, client |-> client, req |-> req,
     kind |-> kind, res |-> res, val |-> val]

(* A job without payload. *)
Signal(type) == MkJob(type, "ODE", NoReq, "Batch", "OK", "none")

VARIABLES
    mbox,       \* the main thread's mailbox, oldest job first
    alState,    \* al->od_state
    alSvc,      \* al->service: the service in progress (or the last one)
    alData,     \* al->service.data_read: where its contents come from
    alLen       \* al->service.data_len

AlStates == {"OnReq_Idle", "Await_DL_param_cnf", "Await_DL_ISDU_cnf"}
(* None, that of the data, or more: a parameter octet has been stored      *)
(* behind them.                                                            *)
Lengths  == {"none", "data", "more"}
Service  == [client : Clients, req : Ids \cup {NoReq}, kind : AllKinds]

JobsTypeOK ==
    /\ mbox \in Seq(Job)
    /\ alState \in AlStates
    /\ alSvc \in Service
    /\ alData \in Tags
    /\ alLen \in Lengths

JobsInit ==
    /\ mbox = <<>>
    /\ alState = "OnReq_Idle"
    /\ alSvc = [client |-> "ODE", req |-> NoReq, kind |-> "Batch"]
    /\ alData = "none"
    /\ alLen = "none"

(* iolink_post_job: append to the mailbox. *)
Post(job) == mbox' = Append(mbox, job)

(* The jobs in the mailbox. *)
Jobs == Range(mbox)
=============================================================================
