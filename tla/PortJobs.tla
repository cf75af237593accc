------------------------------- MODULE PortJobs -------------------------------
(***************************************************************************)
(* What the parts of one port share when it is started and its parameters  *)
(* are kept: the FIFO mailbox of the main thread, the port configuration   *)
(* of the application and the identity of the device in the port info.     *)
(*                                                                         *)
(* A device is known by its identity (vendor and device id).  A parameter  *)
(* value <<id, n>> is version n of a value that came from device id.       *)
(***************************************************************************)
EXTENDS Naturals, Sequences, Functions, FiniteSets

CONSTANTS
    Ids,        \* identities of devices
    NoId,       \* vendor id and device id 0
    Params,     \* the parameters of a device
    IndexList,  \* the index list of a device: its parameters in order
    Versions    \* numbers that tell values of one device apart

(* The direct parameters that the SM reads or writes one octet after the   *)
(* other count as one block: the communication parameters, the identity,   *)
(* the commands MASTER_IDENT, PREOP and OPERATE (with the cycle time), the *)
(* revision and device id for a restart, and a dummy read behind it.       *)
(* "WURQ" stands for the read nobody asked for after a wake-up.            *)
Blocks == {"WURQ", "COMM", "IDENT", "MASTER_IDENT", "PREOP", "OPERATE", "RESTART", "MIN"}

ASSUME PortJobsAssumption ==
    /\ NoId \notin Ids
    /\ IndexList \in Seq(Params) /\ IndexList # <<>>
    /\ Range(IndexList) = Params
    /\ Cardinality(Params) = Len(IndexList)
    /\ Versions \subseteq Nat /\ 0 \in Versions
    /\ Params \cap ({"SIZE", "STATE", "CHECKSUM", "LIST", "SERNUM", "CYCL", "CMD"} \cup Blocks) = {}

(* The last value stands for a set or a checksum nobody ever wrote: 0, or  *)
(* octets that mean something else.                                        *)
Wild       == <<NoId, 0>>
Values     == (Ids \X Versions) \cup {Wild}
Sets       == [Params -> Values]
WildSet    == [p \in Params |-> Wild]
FirstSet(id) == [p \in Params |-> <<id, 0>>]

(* "backup" is the validation and backup level: no check, only the check   *)
(* of the identity against V1.0 or V1.1, restore, or backup and restore.   *)
Modes   == {"IOL_MAN", "IOL_AUTO", "DI_DO", "DEACTIVE", "UNKNOWN"}
Backups == {"CHECK_NO", "CHECK_V10", "CHECK_V11", "RESTORE", "BAK_RESTORE"}
Cfg     == [mode : Modes, backup : Backups, id : Ids \cup {NoId}]
NoCfg   == [mode |-> "DEACTIVE", backup |-> "CHECK_NO", id |-> NoId]

(* The parts of the data storage object of a device, its parameters, its   *)
(* serial number and the cycle time of the master.                         *)
Indexes  == Params \cup {"SIZE", "STATE", "CHECKSUM", "LIST", "SERNUM", "CYCL"}
Commands == {"UL_START", "UL_END", "DL_START", "DL_END", "BREAK"}
Results  == {"OK", "ERR", "BUSY", "COM_ERR"}

(* What a device shows in its answer to a read: whoever asked uses the     *)
(* part asked for.  The checksum of a set is the set.                      *)
Revs     == {"none", "V10", "V11"}
Snapshot == [id : Ids \cup {NoId}, rev : Revs, vals : Sets, flag : BOOLEAN]
NoSnap   == [id |-> NoId, rev |-> "none", vals |-> WildSet, flag |-> FALSE]

JobTypes ==
    {"SMI_CFG", "SM_CFG", "SM_OPERATE",
     "MODE_INACTIVE", "MODE_STARTUP", "MODE_PREOPERATE", "MODE_OPERATE", "MODE_COMLOST",
     "DL_READ_CNF", "DL_WRITE_CNF", "DEVMODE_CNF", "PARAM_CNF", "ISDU_CNF",
     "COMREADY", "FAULT", "OPERATE", "COMLOST",
     "DS_INIT", "DS_DELETE", "DS_STARTUP", "DS_UPLOAD", "DS_READY", "DS_FAULT",
     "AL_READ_REQ", "AL_WRITE_REQ", "AL_READ_CNF", "AL_WRITE_CNF", "SERNUM_CNF", "CYCL_CNF"}

Job == [type : JobTypes, cfg : Cfg, index : Indexes \cup Blocks \cup {"CMD"}, pos : Nat,
        res : Results, snap : Snapshot]

Signal(type) ==
    [type |-> type, cfg |-> NoCfg, index |-> "CMD", pos |-> 0, res |-> "OK", snap |-> NoSnap]
CfgJob(type, cfg)        == [Signal(type) EXCEPT !.cfg = cfg]
ReadReq(index)           == [Signal("AL_READ_REQ") EXCEPT !.index = index]
WriteReq(index, pos)     == [Signal("AL_WRITE_REQ") EXCEPT !.index = index, !.pos = pos]
Cnf(type, index, res, snap) ==
    [Signal(type) EXCEPT !.index = index, !.res = res, !.snap = snap]

VARIABLES
    mbox,       \* the main thread's mailbox, oldest job first
    portId      \* port_info: the identity of the device, NoId when unknown

JobsInit == mbox = <<>> /\ portId = NoId

JobsTypeOK == mbox \in Seq(Job) /\ portId \in Ids \cup {NoId}

Jobs == Range(mbox)

(* iolink_post_job: append to the mailbox. *)
Post(job) == mbox' = Append(mbox, job)

(* The main thread fetches a job of the type, and its callback posts the   *)
(* jobs s.                                                                 *)
Take(type)     == mbox # <<>> /\ Head(mbox).type = type
TakeAndPost(s) == mbox' = Tail(mbox) \o s
=============================================================================
