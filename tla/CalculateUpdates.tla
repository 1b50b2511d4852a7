--------------------------- MODULE CalculateUpdates ---------------------------
(***************************************************************************)
(* WFUTClient::calculateUpdates (src/src/libwfut/WFUT.cpp): which files of *)
(* the server's list have to be downloaded, and the UpdateReason given for *)
(* each of them.                                                           *)
(*                                                                         *)
(* A list maps every filename to a FileObject or, where the list has no    *)
(* such file, to NotListed.  Of a FileObject the decision reads version,   *)
(* crc32 and deleted.  The disk maps a filename to the crc32 of the file's *)
(* content, or to NoFile when it cannot be opened.                         *)
(***************************************************************************)
EXTENDS Integers

CONSTANT File  \* the filenames of a channel

NotListed == [version |-> -1, crc32 |-> 0, deleted |-> TRUE]

NoFile == -1   \* calcCRC32 returns -1: there is no file that can be read

FileObject == [version : Nat, crc32 : Nat, deleted : BOOLEAN]

FileList == [File -> FileObject \cup {NotListed}]

EmptyList == [f \in File |-> NotListed]

Listed(list) == {f \in File : list[f] # NotListed}

Downloads == {"NO_LOCAL", "SERVER_SYSTEM", "SERVER_LOCAL", "MISSING"}

\* The reason when the local list does not have the file.  The system location
\* is taken at its word.
ReasonWithoutLocal(server_obj, sys_obj) ==
  IF sys_obj = NotListed THEN "NO_LOCAL"
  ELSE IF server_obj.version > sys_obj.version THEN "SERVER_SYSTEM"
  ELSE "NONE"

ReasonAnyOtherVersion(server_obj, loc_obj, crc) ==
  IF server_obj.version # loc_obj.version THEN "SERVER_LOCAL"
  ELSE IF crc = NoFile THEN "MISSING"
  ELSE IF crc # server_obj.crc32 THEN "MODIFIED"
  ELSE "NONE"

ReasonModifiedAsMissing(server_obj, loc_obj, crc) ==
  IF server_obj.version > loc_obj.version THEN "SERVER_LOCAL"
  ELSE IF crc # server_obj.crc32 THEN "MISSING"
  ELSE "NONE"

ReasonMissingAsModified(server_obj, loc_obj, crc) ==
  IF server_obj.version > loc_obj.version THEN "SERVER_LOCAL"
  ELSE IF crc # server_obj.crc32 THEN "MODIFIED"
  ELSE "NONE"

\* The reason when the local list has the file: only when it is not older than
\* the server's is the file itself looked at.
ReasonWithLocal(server_obj, loc_obj, crc) ==
  IF server_obj.version > loc_obj.version THEN "SERVER_LOCAL"
  ELSE IF crc = NoFile THEN "MISSING"
  ELSE IF crc # server_obj.crc32 THEN "MODIFIED"
  ELSE "NONE"

Reason(server_obj, sys_obj, loc_obj, crc) ==
  IF server_obj.deleted THEN "DELETED"
  ELSE IF loc_obj = NotListed THEN ReasonWithoutLocal(server_obj, sys_obj)
  ELSE ReasonWithLocal(server_obj, loc_obj, crc)

\* The files of the updates list.
Updates(server, system, local, disk) ==
  {f \in Listed(server) : Reason(server[f], system[f], local[f], disk[f]) \in Downloads}
====
