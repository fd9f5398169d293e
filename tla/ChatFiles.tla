------------------------------ MODULE ChatFiles ------------------------------
(***************************************************************************)
(* The file of one chat of "dzzzr web": the saves that follow each change   *)
(* of the chat, DELETE, and the process being killed and started again      *)
(* (cmd/dzzzr: chatpersist.go, session.go, chatstore.go, web.go). Every     *)
(* chat has a file of its own, so one chat is all there is to look at.      *)
(*                                                                         *)
(* A save w is one handler or one turn event: it changes the chat under the *)
(* store's lock, copies the chat under the lock again, and writes the copy  *)
(* outside it: <id>.json.tmp is created, written, closed and renamed to     *)
(* <id>.json. The temporary name is the same for every save. An inode is    *)
(* named after the save that created it; a save writes through its own file *)
(* descriptor, whatever happens to the name.                                *)
(***************************************************************************)
EXTENDS FiniteSets

CONSTANTS
    Saves,      \* the changes of the chat, each with the save that follows it
    NoFile      \* a name that no inode has

ASSUME NoFileAssumption == NoFile \notin Saves

VARIABLES
    entry,      \* chatStore.chats[id]: "absent", "live", "removed", or "down" for no process
    chat,       \* the changes the chat in memory holds
    stage,      \* where a save stands
    copied,     \* the chat as persist copied it under the lock
    name,       \* the inode behind <id>.json
    tmp,        \* the inode behind <id>.json.tmp
    whole,      \* the inodes whose data were written to the end
    deleted,    \* the latest DELETE was answered
    overdue,    \* history: saves that held a copy when the chat was removed
    overlapped, \* history: saves that ran at the same time as another one
    hurt,       \* history: saves the file system refused something
    kept        \* history: the file system refused the latest DELETE the file

memVars  == <<entry, chat>>
diskVars == <<name, tmp, whole>>
histVars == <<deleted, overdue, overlapped, hurt, kept>>
fileVars == <<memVars, stage, copied, diskVars, histVars>>

\* Holding a copy that may still reach the disk.
Holding == {"copied", "clash", "retry", "open", "written", "cleanup"}
Active  == {"changed"} \cup Holding
Ended   == {"skipped", "saved", "failed", "killed"}

FileTypeOK ==
    /\ entry \in {"absent", "live", "removed", "down"}
    /\ chat \subseteq Saves
    /\ stage \in [Saves -> {"idle"} \cup Active \cup Ended]
    /\ copied \in [Saves -> SUBSET Saves]
    /\ name \in Saves \cup {NoFile}
    /\ tmp \in Saves \cup {NoFile}
    /\ whole \subseteq Saves
    /\ deleted \in BOOLEAN
    /\ overdue \subseteq Saves
    /\ overlapped \subseteq Saves
    /\ hurt \subseteq Saves
    /\ kept \in BOOLEAN

FileInit ==
    /\ entry = "absent"
    /\ chat = {}
    /\ stage = [w \in Saves |-> "idle"]
    /\ copied = [w \in Saves |-> {}]
    /\ name = NoFile
    /\ tmp = NoFile
    /\ whole = {}
    /\ deleted = FALSE
    /\ overdue = {}
    /\ overlapped = {}
    /\ hurt = {}
    /\ kept = FALSE

MoveTo(w, place) == stage' = [stage EXCEPT ![w] = place]

-----------------------------------------------------------------------------
(* The chat in memory.                                                      *)

\* History only: w starts while the saves of Others are under way.
Start(w) ==
    LET others == {v \in Saves : stage[v] \in Active} IN
    overlapped' = IF others = {} THEN overlapped ELSE overlapped \cup others \cup {w}

\* httpCreateChat: chatStore.create under a fresh identifier.
NewChat(w) ==
    /\ entry = "absent" /\ name = NoFile /\ ~deleted
    /\ \A v \in Saves : stage[v] = "idle"
    /\ entry' = "live"
    /\ chat' = {w}
    /\ MoveTo(w, "changed")
    /\ Start(w)
    /\ UNCHANGED <<copied, diskVars, deleted, overdue, hurt, kept>>

\* appendUser, appendLine, update, recordFile or finishRun, each of which its caller
\* follows with persist.
Change(w) ==
    /\ entry = "live"
    /\ stage[w] = "idle"
    /\ chat' = chat \cup {w}
    /\ MoveTo(w, "changed")
    /\ Start(w)
    /\ UNCHANGED <<entry, copied, diskVars, deleted, overdue, hurt, kept>>

\* httpDeleteChat: chatStore.remove takes the chat out of the map ...
TakeOut ==
    /\ entry = "live"
    /\ entry' = "removed"
    /\ chat' = {}
    /\ deleted' = FALSE
    /\ kept' = FALSE
    /\ overdue' = {w \in Saves : stage[w] \in Holding}
    /\ UNCHANGED <<stage, copied, diskVars, overlapped, hurt>>

\* ... and removePersisted its file, or tries to: it drops the error of os.Remove. Then
\* DELETE is answered, the same in both cases.
RemovePersisted ==
    /\ entry = "removed" /\ ~deleted
    /\ \/ name' = NoFile /\ UNCHANGED kept
       \/ name # NoFile /\ kept' = TRUE /\ UNCHANGED name
    /\ deleted' = TRUE
    /\ UNCHANGED <<memVars, stage, copied, tmp, whole, overdue, overlapped, hurt>>

-----------------------------------------------------------------------------
(* persist and writeSecretFile.                                             *)

\* Mutant: a chat that left the map is saved all the same.
MutCopyChat(w) ==
    /\ stage[w] = "changed"
    /\ copied' = [copied EXCEPT ![w] = chat]
    /\ MoveTo(w, "copied")
    /\ UNCHANGED <<memVars, diskVars, histVars>>

\* persist copies the chat; a chat that is gone is not saved, and that is no error.
CopyChat(w) ==
    /\ stage[w] = "changed"
    /\ IF entry = "live"
       THEN /\ copied' = [copied EXCEPT ![w] = chat]
            /\ MoveTo(w, "copied")
       ELSE /\ MoveTo(w, "skipped")
            /\ UNCHANGED copied
    /\ UNCHANGED <<memVars, diskVars, histVars>>

\* O_CREATE|O_EXCL|O_TRUNC.
Create(w) ==
    /\ tmp = NoFile
    /\ tmp' = w
    /\ MoveTo(w, "open")
    /\ UNCHANGED <<memVars, copied, name, whole, histVars>>

\* The temporary name is taken: by a killed run, or by a save that is still writing.
OpenTmp(w) ==
    /\ stage[w] = "copied"
    /\ \/ Create(w)
       \/ /\ tmp # NoFile
          /\ MoveTo(w, "clash")
          /\ UNCHANGED <<memVars, copied, diskVars, histVars>>

\* os.Remove(tmp) on the clash. If it was renamed away meanwhile, the removal fails and
\* with it the save.
RemoveLeftover(w) ==
    /\ stage[w] = "clash"
    /\ IF tmp # NoFile THEN MoveTo(w, "retry") ELSE MoveTo(w, "failed")
    /\ tmp' = NoFile
    /\ UNCHANGED <<memVars, copied, name, whole, histVars>>

\* The second and last attempt.
ReopenTmp(w) ==
    /\ stage[w] = "retry"
    /\ \/ Create(w)
       \/ /\ tmp # NoFile
          /\ MoveTo(w, "failed")
          /\ UNCHANGED <<memVars, copied, diskVars, histVars>>

\* f.Write and f.Close, into the inode this save created.
Write(w) ==
    /\ stage[w] = "open"
    /\ whole' = whole \cup {w}
    /\ MoveTo(w, "written")
    /\ UNCHANGED <<memVars, copied, name, tmp, histVars>>

\* Mutant: the temporary file is renamed before its data are written.
MutRename(w) ==
    /\ stage[w] = "open"
    /\ tmp # NoFile
    /\ name' = tmp
    /\ tmp' = NoFile
    /\ MoveTo(w, "saved")
    /\ UNCHANGED <<memVars, copied, whole, histVars>>

\* os.Rename moves whatever inode the temporary name stands for by now. Without one it
\* fails.
Rename(w) ==
    /\ stage[w] = "written"
    /\ IF tmp # NoFile
       THEN /\ name' = tmp
            /\ tmp' = NoFile
            /\ MoveTo(w, "saved")
       ELSE /\ MoveTo(w, "cleanup")
            /\ UNCHANGED <<name, tmp>>
    /\ UNCHANGED <<memVars, copied, whole, histVars>>

\* The file system refuses the directory or the temporary file, its removal, the data, or
\* the rename.
DiskRefuses(w) ==
    /\ \/ stage[w] \in {"copied", "clash", "retry", "cleanup"} /\ MoveTo(w, "failed")
       \/ stage[w] \in {"open", "written"} /\ MoveTo(w, "cleanup")
    /\ hurt' = hurt \cup {w}
    /\ UNCHANGED <<memVars, copied, diskVars, deleted, overdue, overlapped, kept>>

\* After a failed write or rename os.Remove(tmp) drops the name, whosever it is, and the
\* callers drop the error.
CleanUp(w) ==
    /\ stage[w] = "cleanup"
    /\ tmp' = NoFile
    /\ MoveTo(w, "failed")
    /\ UNCHANGED <<memVars, copied, name, whole, histVars>>

-----------------------------------------------------------------------------
\* The process is killed between any two steps.
Kill ==
    /\ entry \in {"live", "removed"}
    /\ entry' = "down"
    /\ chat' = {}
    /\ stage' = [w \in Saves |-> IF stage[w] \in Active THEN "killed" ELSE stage[w]]
    /\ UNCHANGED <<copied, diskVars, histVars>>

\* loadFromDisk: a damaged file is skipped, a temporary one is not looked at.
Restart ==
    /\ entry = "down"
    /\ IF name \in whole
       THEN entry' = "live" /\ chat' = copied[name]
       ELSE entry' = "absent" /\ UNCHANGED chat
    /\ UNCHANGED <<stage, copied, diskVars, histVars>>

SaveStep(w) ==
    \/ CopyChat(w) \/ OpenTmp(w) \/ RemoveLeftover(w) \/ ReopenTmp(w)
    \/ Write(w) \/ Rename(w) \/ DiskRefuses(w) \/ CleanUp(w)

FileNext ==
    \/ \E w \in Saves : NewChat(w) \/ Change(w) \/ SaveStep(w)
    \/ TakeOut \/ RemovePersisted
    \/ Kill \/ Restart

FileSpec == FileInit /\ [][FileNext]_fileVars

-----------------------------------------------------------------------------
(* Properties.                                                              *)

\* As long as saves follow each other, nothing that was reported saved is ever lost, to
\* a kill between two steps, to a leftover temporary file or to a full disk: what the
\* file holds is what the next process will load, and it has the change of every save
\* that succeeded, also of a chat whose file could not be deleted.  When they overlap, one
\* may find its temporary name taken over by another and rename that one's unfinished file;
\* but then the other one is still writing, and unless it is stopped or refused the file
\* ends up whole.
NothingSavedIsLost ==
    /\ overlapped = {} /\ entry # "removed" /\ (deleted => kept) =>
        \A w \in Saves : stage[w] = "saved" =>
            /\ name \in whole
            /\ w \in copied[name]
            /\ entry = "live" => w \in chat
    /\ name # NoFile /\ name \notin whole => stage[name] \in {"open", "killed"} \/ name \in hurt

\* Once DELETE was answered the chat is gone for good, over restarts too, with two
\* exceptions the answer says nothing of: a save had copied the chat before it left the map
\* and was still on its way to the disk; or the file system refused to remove the file, an
\* error removePersisted drops, so the next process loads the chat again.
DeletedStaysDeleted ==
    deleted /\ overdue = {} /\ ~kept => name = NoFile /\ entry # "live"

=============================================================================
