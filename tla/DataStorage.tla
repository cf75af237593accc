----------------------------- MODULE DataStorage -----------------------------
(***************************************************************************)
(* The data storage state machine DS of one port (iolink_ds.c): it keeps a *)
(* copy of the parameters of the connected device and restores them into a *)
(* replacement.  One action per job of the main thread; the states that    *)
(* iolink_ds_event passes through within one job are not states here.      *)
(***************************************************************************)
EXTENDS PortJobs

CONSTANTS
    BigIds,     \* devices whose data storage is larger than the master's
    LockedIds   \* devices that report "data storage access locked"

VARIABLES
    dsState,    \* ds->state
    ds,         \* the flags and cursors of iolink_ds_port_t
    master,     \* ds->master_ds
    saved       \* history: the set that was stored as a whole last

dsVars == <<dsState, ds, master, saved>>

N == Len(IndexList)

RestStates   == {"CheckActivationState", "WaitingOnDSActivity", "Off"}
UploadStates == {"ReadParameter", "StoreDataSet"}
DlStates     == {"Decompose_Set", "Write_Parameter", "Download_Done"}
DsStates     == RestStates \cup UploadStates \cup DlStates \cup
    {"CheckIdentity", "CheckMemSize", "CheckUpload", "CheckDSValidity", "DS_Fault"}

Nothing  == [id |-> NoId, set |-> WildSet]
SavedSet == [id : Ids \cup {NoId}, set : Sets]

DsTypeOK ==
    /\ dsState \in DsStates
    /\ ds \in [enable : BOOLEAN, upload : BOOLEAN, download : BOOLEAN,
               command : Commands, pending : Ids \cup {NoId}, cs : Sets, il : 0 .. N]
    /\ master \in [id : Ids \cup {NoId}, cs : Sets, valid : BOOLEAN,
                   size : 0 .. N, pos : 0 .. N, data : [1 .. N -> Values]]
    /\ saved \in SavedSet

(* iolink_ds_init *)
DsInit ==
    /\ dsState = "CheckActivationState"
    /\ ds = [enable |-> FALSE, upload |-> FALSE, download |-> FALSE, command |-> "BREAK",
             pending |-> NoId, cs |-> WildSet, il |-> 0]
    /\ master = [id |-> NoId, cs |-> WildSet, valid |-> FALSE, size |-> 0, pos |-> 0,
                 data |-> [i \in 1 .. N |-> Wild]]
    /\ saved = Nothing

(* DS_Chk_Cfg: the stored set is that of the configured device. *)
DS_Chk_Cfg(cfg) == master.id # NoId /\ master.id = cfg.id

(* The parameter set in the store, entry i holding parameter IndexList[i]. *)
StoredSet(m) ==
    [p \in Params |-> m.data[CHOOSE i \in 1 .. N : IndexList[i] = p]]

-----------------------------------------------------------------------------
(* Steps the jobs have in common.  Each handles the job at the head of the *)
(* mailbox and posts the jobs it names.                                    *)

Enter(state, posts) == dsState' = state /\ TakeAndPost(posts)

(* No row of the state machine for the event. *)
Ignore == TakeAndPost(<<>>) /\ UNCHANGED dsVars

(* ds_AL_Read_req in the state entered *)
ReadIn(state, index) == Enter(state, <<ReadReq(index)>>)

(* ds_AL_Write_ds_cmd_req: AL_Write_req gets a pointer to ds->command. *)
WriteIn(state, command) ==
    /\ ds' = [ds EXCEPT !.command = command]
    /\ Enter(state, <<WriteReq("CMD", 0)>>)

(* ds_ul_fault, ds_dl_fault and ds_fault for their events *)
BreakOff == WriteIn("DS_Fault", "BREAK") /\ UNCHANGED <<master, saved>>

(* ds_fault for the identity, the memory size and the lock *)
ReportFault == Enter("WaitingOnDSActivity", <<Signal("DS_FAULT")>>)

(* ds_ready *)
ReportReady == Enter("WaitingOnDSActivity", <<Signal("DS_READY")>>)

(* DS_EVENT_COM_ERR *)
ComErr ==
    \/ /\ dsState \in {"ReadParameter", "StoreDataSet", "Write_Parameter", "Download_Done"}
       /\ BreakOff
    \/ /\ dsState = "DS_Fault"
       /\ Enter("WaitingOnDSActivity", <<>>)
       /\ UNCHANGED <<ds, master, saved>>
    \/ /\ dsState \notin UploadStates \cup {"Write_Parameter", "Download_Done", "DS_Fault"}
       /\ Ignore

-----------------------------------------------------------------------------
(* Jobs from the configuration manager and from the event handler.         *)

(* ds_init_cb, ds_reinit.  The flags are set whatever the state is; the    *)
(* event is accepted only before the upload decision.  ds_enable is never  *)
(* cleared here.                                                           *)
DsInitCb ==
    LET cfg     == Head(mbox).cfg
        restore == cfg.mode = "IOL_MAN" /\ cfg.backup \in {"RESTORE", "BAK_RESTORE"}
    IN  /\ Take("DS_INIT")
        /\ ds' = [ds EXCEPT !.upload = restore /\ cfg.backup = "BAK_RESTORE",
                            !.download = restore,
                            !.enable = ds.enable \/ restore,
                            !.pending = cfg.id]
        /\ Enter(IF dsState \in RestStates \cup {"CheckIdentity", "CheckMemSize"}
                 THEN IF ds'.enable THEN "WaitingOnDSActivity" ELSE "Off"
                 ELSE dsState, <<>>)
        /\ UNCHANGED <<master, saved>>

(* A mutant of DsDeleteCb: the set stays valid without an identity. *)
DsDeleteCbKeepsValid ==
    /\ Take("DS_DELETE")
    /\ IF dsState \in RestStates
       THEN /\ master' = [master EXCEPT !.id = NoId, !.cs = WildSet, !.pos = 0]
            /\ saved' = Nothing
       ELSE UNCHANGED <<master, saved>>
    /\ TakeAndPost(<<>>)
    /\ UNCHANGED <<dsState, ds>>

(* ds_delete *)
DsDeleteCb ==
    /\ Take("DS_DELETE")
    /\ IF dsState \in RestStates
       THEN /\ master' = [master EXCEPT !.id = NoId, !.cs = WildSet, !.valid = FALSE, !.pos = 0]
            /\ saved' = Nothing
       ELSE UNCHANGED <<master, saved>>
    /\ TakeAndPost(<<>>)
    /\ UNCHANGED <<dsState, ds>>

(* ds_chk_id: is the device the one the set was stored for? *)
CheckId ==
    /\ IF master.id \in {NoId, portId} THEN ReadIn("CheckIdentity", "SIZE") ELSE ReportFault
    /\ UNCHANGED <<ds, master, saved>>

DsStartupCb ==
    /\ Take("DS_STARTUP")
    /\ \/ dsState = "WaitingOnDSActivity" /\ CheckId
       \/ /\ dsState = "Off"                                   \* ds_off
          /\ Enter("Off", <<Signal("DS_READY")>>)
          /\ UNCHANGED <<ds, master, saved>>
       \/ dsState \notin {"WaitingOnDSActivity", "Off"} /\ Ignore

DsUploadCb ==
    /\ Take("DS_UPLOAD")
    /\ IF dsState = "WaitingOnDSActivity" THEN CheckId ELSE Ignore

-----------------------------------------------------------------------------
(* ds_read_cnf_cb.                                                         *)

(* A confirmation that answers the read the state waits for.  One left     *)
(* over from before an INIT has another length or means something else.    *)
Answered(index) == Head(mbox).res = "OK" /\ Head(mbox).index = index

(* Fewer octets than a checksum has. *)
Short == Head(mbox).res # "OK" \/ Head(mbox).index = "STATE"

(* The checksum the DS takes from a confirmation: without data the pointer *)
(* is NULL, and what is read there may or may not look like the stored one.*)
ReadChecksum == IF Answered("CHECKSUM") THEN {Head(mbox).snap.vals} ELSE {WildSet, master.cs}

(* DS_STATE_CheckIdentity, ds_chk_mem_size *)
SizeRead ==
    /\ dsState = "CheckIdentity"
    /\ IF Answered("SIZE") /\ Head(mbox).snap.id \notin BigIds
       THEN ReadIn("CheckMemSize", "STATE")
       ELSE ReportFault
    /\ UNCHANGED <<ds, master, saved>>

(* DS_STATE_CheckMemSize, ds_chk_upload *)
StateRead ==
    /\ dsState = "CheckMemSize"
    /\ \/ /\ ~Answered("STATE")
          /\ ReportFault
          /\ UNCHANGED ds
       \/ /\ Answered("STATE") /\ Head(mbox).snap.id \in LockedIds
          /\ ReportFault
          /\ ds' = [ds EXCEPT !.enable = FALSE]
       \/ /\ Answered("STATE") /\ Head(mbox).snap.id \notin LockedIds
          /\ IF Head(mbox).snap.flag /\ ds.upload
             THEN WriteIn("CheckUpload", "UL_START")
             ELSE ReadIn("CheckUpload", "CHECKSUM") /\ UNCHANGED ds
    /\ UNCHANGED <<master, saved>>

(* DS_STATE_CheckUpload, ds_chk_validity, ds_chk_csum: COM_ERR for a short *)
(* answer has no row here, and the octets are used all the same.           *)
ChecksumRead ==
    /\ dsState = "CheckUpload"
    /\ \E cs \in ReadChecksum :
          \/ /\ ~master.valid
             /\ ds' = [ds EXCEPT !.cs = cs, !.command = "UL_START"]
             /\ Enter("CheckDSValidity", <<WriteReq("CMD", 0)>>)
          \/ /\ master.valid /\ ds.download /\ master.cs # cs
             /\ ds' = [ds EXCEPT !.cs = cs, !.command = "DL_START"]
             /\ Enter("Decompose_Set", <<WriteReq("CMD", 0)>>)
          \/ /\ master.valid /\ ~(ds.download /\ master.cs # cs)
             /\ ds' = [ds EXCEPT !.cs = cs]
             /\ ReportReady
    /\ UNCHANGED <<master, saved>>

(* DS_STATE_ReadParameter: the index list, or the next parameter, which    *)
(* goes behind those already in the store; then ds_upload.                 *)
CurrentIndex == IF ds.il = 0 THEN "LIST" ELSE IndexList[ds.il]

ReadValue == IF Head(mbox).index \in Params THEN Head(mbox).snap.vals[Head(mbox).index] ELSE Wild

(* A mutant of ParameterRead: the cursor moves on behind the last entry. *)
ParameterReadPastEnd ==
    /\ dsState = "ReadParameter"
    /\ Head(mbox).res = "OK"
    /\ ds' = [ds EXCEPT !.il = @ + 1]
    /\ ReadIn("ReadParameter", IndexList[IF ds.il < N THEN ds.il + 1 ELSE N])
    /\ UNCHANGED <<master, saved>>

(* A mutant of ParameterRead: every value goes into the first entry. *)
ParameterReadOverwrites ==
    /\ dsState = "ReadParameter"
    /\ IF ds.il > 0 THEN master' = [master EXCEPT !.data[1] = ReadValue, !.size = ds.il]
       ELSE UNCHANGED master
    /\ ds' = [ds EXCEPT !.il = IF @ < N THEN @ + 1 ELSE @]
    /\ IF ds.il < N THEN ReadIn("ReadParameter", IndexList[ds.il + 1])
       ELSE ReadIn("StoreDataSet", "CHECKSUM")
    /\ UNCHANGED saved

(* A mutant of ParameterRead: nothing follows a negative answer. *)
ParameterReadNoFault ==
    /\ dsState = "ReadParameter"
    /\ IF Head(mbox).res # "OK" THEN Ignore
       ELSE /\ ds' = [ds EXCEPT !.il = IF @ < N THEN @ + 1 ELSE @]
            /\ IF ds.il < N THEN ReadIn("ReadParameter", IndexList[ds.il + 1])
               ELSE ReadIn("StoreDataSet", "CHECKSUM")
            /\ UNCHANGED <<master, saved>>

ParameterRead ==
    /\ dsState = "ReadParameter"
    /\ \/ Head(mbox).res # "OK" /\ BreakOff
       \/ /\ Head(mbox).res = "OK"
          /\ IF ds.il > 0 /\ master.pos < N
             THEN master' = [master EXCEPT !.pos = @ + 1, !.data[master.pos + 1] = ReadValue,
                                           !.size = IF ds.il < N THEN @ ELSE master.pos + 1]
             ELSE UNCHANGED master
          /\ IF ds.il < N
             THEN /\ ds' = [ds EXCEPT !.il = @ + 1]
                  /\ ReadIn("ReadParameter", IndexList[ds.il + 1])
             ELSE UNCHANGED ds /\ ReadIn("StoreDataSet", "CHECKSUM")
          /\ UNCHANGED saved

(* DS_STATE_StoreDataSet: after a short answer the fault is handled, and   *)
(* then the upload is ended as well: two writes, and the second command    *)
(* replaces the first before the AL has looked at it.                      *)
StoreRead ==
    /\ dsState = "StoreDataSet"
    /\ \E cs \in ReadChecksum :
          ds' = [ds EXCEPT !.cs = cs, !.command = "UL_END"]
    /\ IF Short
       THEN Enter("DS_Fault", <<WriteReq("CMD", 0), WriteReq("CMD", 0)>>)
       ELSE Enter("StoreDataSet", <<WriteReq("CMD", 0)>>)
    /\ UNCHANGED <<master, saved>>

(* DS_STATE_Download_Done: the short answer leaves the state, in which     *)
(* DS_EVENT_READY would have had a row.                                    *)
DownloadRead ==
    /\ dsState = "Download_Done"
    /\ \E cs \in ReadChecksum :
          IF Short
          THEN /\ ds' = [ds EXCEPT !.cs = cs, !.command = "BREAK"]
               /\ Enter("DS_Fault", <<WriteReq("CMD", 0)>>)
          ELSE ds' = [ds EXCEPT !.cs = cs] /\ ReportReady
    /\ UNCHANGED <<master, saved>>

DsReadCnf ==
    /\ Take("AL_READ_CNF")
    /\ \/ Head(mbox).res = "COM_ERR" /\ ComErr
       \/ /\ Head(mbox).res # "COM_ERR"
          /\ \/ SizeRead \/ StateRead \/ ChecksumRead \/ ParameterRead \/ StoreRead \/ DownloadRead
             \/ /\ dsState \notin {"CheckIdentity", "CheckMemSize", "CheckUpload",
                                   "ReadParameter", "StoreDataSet", "Download_Done"}
                /\ Ignore

-----------------------------------------------------------------------------
(* ds_write_cnf_cb.                                                        *)

(* ds_upload for DS_EVENT_DO_UPLOAD, ds_readparam *)
UploadStarted ==
    /\ dsState \in {"CheckUpload", "CheckDSValidity"}
    /\ master' = [master EXCEPT !.pos = 0]
    /\ ds' = [ds EXCEPT !.il = 0]
    /\ ReadIn("ReadParameter", "LIST")
    /\ UNCHANGED saved

(* A mutant of WriteNext: the last entry is left out. *)
WriteNextButLast(pos) ==
    IF pos + 1 < master.size
    THEN /\ master' = [master EXCEPT !.pos = pos + 1]
         /\ Enter("Write_Parameter", <<WriteReq(IndexList[pos + 1], pos + 1)>>)
         /\ UNCHANGED <<ds, saved>>
    ELSE /\ master' = [master EXCEPT !.pos = pos]
         /\ WriteIn("Download_Done", "DL_END")
         /\ UNCHANGED saved

(* ds_decompose_set and ds_write_param, or ds_dl_done, with the cursor at  *)
(* "pos".  The AL gets a pointer to the entry in the store.                *)
WriteNext(pos) ==
    IF pos < master.size
    THEN /\ master' = [master EXCEPT !.pos = pos + 1]
         /\ Enter("Write_Parameter", <<WriteReq(IndexList[pos + 1], pos + 1)>>)
         /\ UNCHANGED <<ds, saved>>
    ELSE /\ master' = [master EXCEPT !.pos = pos]
         /\ WriteIn("Download_Done", "DL_END")
         /\ UNCHANGED saved

DownloadStarted == dsState = "Decompose_Set" /\ WriteNext(0)
ParameterWritten == dsState = "Write_Parameter" /\ WriteNext(master.pos)

(* DS_STATE_StoreDataSet: the set is valid from here on, as that of the    *)
(* device of the last DS_Init.                                             *)
UploadEnded ==
    /\ dsState = "StoreDataSet"
    /\ master' = [master EXCEPT !.id = ds.pending, !.cs = ds.cs, !.valid = TRUE]
    /\ saved' = [id |-> ds.pending, set |-> StoredSet(master)]
    /\ ReportReady
    /\ UNCHANGED ds

DownloadEnded ==
    /\ dsState = "Download_Done"
    /\ ReadIn("Download_Done", "CHECKSUM")
    /\ UNCHANGED <<ds, master, saved>>

(* A mutant of BrokenOff: the CM does not hear of the fault. *)
BrokenOffUnreported ==
    /\ dsState = "DS_Fault"
    /\ Enter("WaitingOnDSActivity", <<>>)
    /\ UNCHANGED <<ds, master, saved>>

(* DS_STATE_DS_Fault: the device has left the upload or download. *)
BrokenOff ==
    /\ dsState = "DS_Fault"
    /\ ReportFault
    /\ UNCHANGED <<ds, master, saved>>

DsWriteCnf ==
    /\ Take("AL_WRITE_CNF")
    /\ \/ Head(mbox).res # "OK" /\ ComErr
       \/ /\ Head(mbox).res = "OK"
          /\ \/ UploadStarted \/ DownloadStarted \/ ParameterWritten
             \/ UploadEnded \/ DownloadEnded \/ BrokenOff
             \/ dsState \in RestStates \cup {"CheckIdentity", "CheckMemSize", "ReadParameter"} /\ Ignore

-----------------------------------------------------------------------------
(* ds_SMI_ParServToDS_req: the application replaces the stored set, on its *)
(* own thread, whatever the state machine is doing.                        *)
ParServToDS(id, set) ==
    /\ master' = [master EXCEPT !.id = id, !.cs = WildSet, !.valid = TRUE, !.size = N,
                                !.data = [i \in 1 .. N |-> set[IndexList[i]]]]
    /\ saved' = [id |-> id, set |-> set]
    /\ UNCHANGED <<mbox, dsState, ds>>

DsJob ==
    \/ DsInitCb \/ DsDeleteCb \/ DsStartupCb \/ DsUploadCb \/ DsReadCnf \/ DsWriteCnf
=============================================================================
