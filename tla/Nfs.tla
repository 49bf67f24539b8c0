-------------------------------- MODULE Nfs ---------------------------------
(***************************************************************************)
(* The NFS client of net/nfs.c: NfsStart, NfsHandler with the replies it   *)
(* parses, NfsTimeout; and the server (external), which has one directory. *)
(* A file name is a sequence of characters, because nfs_readlink_reply     *)
(* edits it in place.  A packet is delayed without bound; one that is lost *)
(* or doubled and a call that is refused are faults.                       *)
(***************************************************************************)
EXTENDS NetBase, Sequences

CONSTANTS
  FileLen,        \* function: name of a file |-> its length in blocks
  LinkTo,         \* function: name of a link |-> [rel : BOOLEAN, to : name]
  Dirs,           \* names of directories
  Goal,           \* function: file or link |-> the file it leads to
  OtherNames,     \* names the server does not have
  NFS_READ_SIZE,  \* blocks asked for in a READ
  MaxName         \* bound: length of a name

Files == DOMAIN FileLen
Links == DOMAIN LinkTo
Names == Files \cup Links \cup Dirs \cup OtherNames

NUL     == 0
NoBlock == <<>>

ASSUME NfsAssumption ==
  /\ MaxName \in Nat
  /\ \A n \in Names : n \in Seq(Nat \ {NUL}) /\ Len(n) \in 1 .. MaxName
  /\ \A l \in Links : LinkTo[l] \in [rel : BOOLEAN, to : Names]
  /\ FileLen \in [Files -> Nat] /\ NFS_READ_SIZE \in Nat \ {0}
  /\ \E f \in Files : \A g \in Files : FileLen[g] <= FileLen[f]
  /\ DOMAIN Goal = Files \cup Links
  /\ \A f \in Files : Goal[f] = f
  /\ \A l \in Links : LinkTo[l].to \in DOMAIN Goal /\ Goal[l] = Goal[LinkTo[l].to]

VARIABLES
  NfsState,             \* PRCLOOKUP_MOUNT, PRCLOOKUP_NFS, MOUNT, LOOKUP, READ,
                        \* READLINK, UMOUNT
  rpc_id,
  nfs_offset,
  NfsDownloadState,     \* "fail", "success"
  fs_mounted,
  ports,                \* programs whose port is known: "MOUNT", "NFS"
  nfs_path_buff,        \* the part behind the directory
  filefh,               \* what the file handle stands for
  mem,                  \* per block at load_addr: <<file, block>>
  NetBootFileXferSize,
  asked,                \* the name of the command (history)
  rpc                   \* calls and replies under way

nfsClient == <<NfsState, nfs_offset, NfsDownloadState, fs_mounted, ports,
               nfs_path_buff, filefh, mem, NetBootFileXferSize>>
nfsVars   == <<nfsClient, rpc_id, asked, rpc>>

\* The string at the start of the buffer, and the buffer with s copied over it.
StringIn(buf) == SubSeq(buf, 1, (CHOOSE i \in 1 .. Len(buf) :
                          buf[i] = NUL /\ \A j \in 1 .. i - 1 : buf[j] # NUL) - 1)
Copied(s, buf) == [i \in 1 .. Len(buf) |-> IF i <= Len(s) THEN s[i] ELSE buf[i]]

-----------------------------------------------------------------------------
(* Calls.  rpc_req gives a call the next number; a call to a program whose *)
(* port is not known reaches nobody.                                       *)
rpc_req(net, prog, call) ==
  /\ rpc_id' = rpc_id + 1
  /\ rpc' = IF prog \in ports' \cup {"PORTMAP"}
              THEN net \cup {[call EXCEPT !.id = rpc_id']} ELSE net

Call(proc, name, offset) == [id |-> 0, proc |-> proc, name |-> name, offset |-> offset]

\* NfsSend in the new state st, the packets net being under way.
NfsSend(net, st) ==
  /\ NfsState' = st
  /\ CASE st \in {"PRCLOOKUP_MOUNT", "PRCLOOKUP_NFS"} ->
            rpc_req(net, "PORTMAP", Call(st, <<>>, 0))
       [] st = "MOUNT"    -> rpc_req(net, "MOUNT", Call(st, <<>>, 0))
       [] st = "LOOKUP"   -> rpc_req(net, "NFS", Call(st, StringIn(nfs_path_buff'), 0))
       [] st = "READ"     -> rpc_req(net, "NFS", Call(st, filefh', nfs_offset'))
       [] st = "READLINK" -> rpc_req(net, "NFS", Call(st, filefh', 0))
       [] st = "UMOUNT" /\ "MOUNT" \in ports' /\ fs_mounted' ->
            rpc_req(net, "MOUNT", Call(st, <<>>, 0))
       [] OTHER -> rpc' = net /\ UNCHANGED rpc_id   \* nothing to umount

\* Mutant of NfsStart: the time-out is left to the first READ.
NfsStartNoTimeout(name) ==
  /\ NfsDownloadState' = "fail"
  /\ nfs_path_buff' = Copied(Append(name, NUL), nfs_path_buff)
  /\ NetSetTimeout("none") /\ NetSetHandler("NfsHandler")
  /\ UNCHANGED <<ports, fs_mounted, filefh, nfs_offset, mem>>
  /\ NfsSend(rpc, "PRCLOOKUP_MOUNT")

\* NfsStart with the boot file name, which is copied into the buffer and cut off
\* behind the directory.
NfsStart(name) ==
  /\ NfsDownloadState' = "fail"
  /\ nfs_path_buff' = Copied(Append(name, NUL), nfs_path_buff)
  /\ NetSetTimeout("NfsTimeout") /\ NetSetHandler("NfsHandler")
  /\ UNCHANGED <<ports, fs_mounted, filefh, nfs_offset, mem>>
  /\ NfsSend(rpc, "PRCLOOKUP_MOUNT")

-----------------------------------------------------------------------------
(* Replies: [id, status, fh, offset, len, rel].  The replies and the states *)
(* of NfsHandler; net is what stays under way.                              *)
\* eth_rx hands over the frames that have come after NetState was set, too; after
\* a time-out there are none.
NfsHandles ==
  /\ packetHandler = "NfsHandler"
  /\ NetState = "continue" \/ (NetState \in {"success", "fail"} /\ timeHandler # "none")

\* Mutant of Answers: the number is not compared.
AnswersAny(m) == m.status = "ok"

\* The reply is to the last call, and good.
Answers(m) == m.id = rpc_id /\ m.status = "ok"

\* rpc_lookup_reply, whose result is not looked at.
rpc_lookup_reply(m, net) ==
  LET prog == IF NfsState = "PRCLOOKUP_MOUNT" THEN "MOUNT" ELSE "NFS"
  IN  /\ NfsState \in {"PRCLOOKUP_MOUNT", "PRCLOOKUP_NFS"}
      /\ ports' = IF Answers(m) THEN ports \cup {prog} ELSE ports
      /\ UNCHANGED <<nfs_offset, NfsDownloadState, fs_mounted, nfs_path_buff, filefh,
                     mem, NetBootFileXferSize>> /\ LoopUnchanged
      /\ NfsSend(net, IF prog = "MOUNT" THEN "PRCLOOKUP_NFS" ELSE "MOUNT")

nfs_mount_reply(m, net) ==
  /\ NfsState = "MOUNT"
  /\ fs_mounted' = (fs_mounted \/ Answers(m))
  /\ UNCHANGED <<nfs_offset, NfsDownloadState, ports, nfs_path_buff, filefh,
                 mem, NetBootFileXferSize>> /\ LoopUnchanged
  /\ NfsSend(net, IF Answers(m) THEN "LOOKUP" ELSE "UMOUNT")

nfs_lookup_reply(m, net) ==
  /\ NfsState = "LOOKUP"
  /\ filefh' = IF Answers(m) THEN m.fh ELSE filefh
  /\ nfs_offset' = IF Answers(m) THEN 0 ELSE nfs_offset
  /\ UNCHANGED <<NfsDownloadState, fs_mounted, ports, nfs_path_buff,
                 mem, NetBootFileXferSize>> /\ LoopUnchanged
  /\ NfsSend(net, IF Answers(m) THEN "READ" ELSE "UMOUNT")

\* store_block: the data at load_addr + offset.
store_block(m, offset) ==
  /\ mem' = [i \in DOMAIN mem |-> IF i \in offset .. offset + m.len - 1
                                  THEN <<m.fh, m.offset + (i - offset)>> ELSE mem[i]]
  /\ NetBootFileXferSize' = IF NetBootFileXferSize < offset + m.len
                            THEN offset + m.len ELSE NetBootFileXferSize

\* Mutant of ReadGoesOn: the offset advances by what was asked for.
ReadGoesOnByAsked(m, net) ==
  /\ NfsState = "READ" /\ Answers(m) /\ m.len > 0
  /\ store_block(m, nfs_offset)
  /\ NetSetTimeout("NfsTimeout")
  /\ nfs_offset' = nfs_offset + NFS_READ_SIZE
  /\ UNCHANGED <<NfsDownloadState, fs_mounted, ports, nfs_path_buff, filefh,
                 NetState, packetHandler>>
  /\ NfsSend(net, "READ")

\* nfs_read_reply and what NfsHandler makes of it: the next block, the end of
\* the file, a link to follow, an error.
ReadGoesOn(m, net) ==
  /\ NfsState = "READ" /\ Answers(m) /\ m.len > 0
  /\ store_block(m, nfs_offset)
  /\ NetSetTimeout("NfsTimeout")
  /\ nfs_offset' = nfs_offset + m.len
  /\ UNCHANGED <<NfsDownloadState, fs_mounted, ports, nfs_path_buff, filefh,
                 NetState, packetHandler>>
  /\ NfsSend(net, "READ")

ReadEnds(m, net) ==
  /\ NfsState = "READ" /\ ~(Answers(m) /\ m.len > 0)
  /\ NetSetTimeout("NfsTimeout")
  /\ NfsDownloadState' = IF Answers(m) THEN "success" ELSE NfsDownloadState
  /\ UNCHANGED <<nfs_offset, fs_mounted, ports, nfs_path_buff, filefh, mem,
                 NetBootFileXferSize, NetState, packetHandler>>
  /\ NfsSend(net, IF m.id = rpc_id /\ m.status = "inval" THEN "READLINK" ELSE "UMOUNT")

\* nfs_readlink_reply: the new name over the old one.  A relative one is
\* terminated one character late (nfs_path[pathlen+rlen+1] = 0).
Relinked(m) ==
  LET end == Len(m.fh) + (IF m.rel THEN 2 ELSE 1)
  IN  [Copied(m.fh, nfs_path_buff) EXCEPT ![end] = NUL]

nfs_readlink_reply(m, net) ==
  /\ NfsState = "READLINK"
  /\ nfs_path_buff' = IF Answers(m) THEN Relinked(m) ELSE nfs_path_buff
  /\ UNCHANGED <<nfs_offset, NfsDownloadState, fs_mounted, ports, filefh, mem,
                 NetBootFileXferSize>> /\ LoopUnchanged
  /\ NfsSend(net, IF Answers(m) THEN "MOUNT" ELSE "UMOUNT")

nfs_umountall_reply(m, net) ==
  LET good == m.id = rpc_id /\ m.status \in {"ok", "inval"}  \* data[0] is not tested
  IN  /\ NfsState = "UMOUNT"
      /\ fs_mounted' = (fs_mounted /\ ~good)
      /\ NetState' = IF good THEN NfsDownloadState ELSE "fail"
      /\ rpc' = net
      /\ UNCHANGED <<NfsState, nfs_offset, NfsDownloadState, ports, nfs_path_buff, filefh,
                     mem, NetBootFileXferSize, rpc_id, timeHandler,
                     packetHandler>>

NfsHandler(m, net) ==
  NfsHandles /\ (\/ rpc_lookup_reply(m, net) \/ nfs_mount_reply(m, net)
                 \/ nfs_lookup_reply(m, net) \/ ReadGoesOn(m, net) \/ ReadEnds(m, net)
                 \/ nfs_readlink_reply(m, net) \/ nfs_umountall_reply(m, net))

NfsTimeout ==
  /\ NetState' = "fail" /\ timeHandler' = "none"
  /\ UNCHANGED <<packetHandler, nfsClient, rpc_id, rpc>>

-----------------------------------------------------------------------------
(* The server and the network (external). *)
Reply(c, status, fh, offset, len, rel) ==
  [id |-> c.id, status |-> status, fh |-> fh, offset |-> offset, len |-> len, rel |-> rel]

IsCall(m) == "proc" \in DOMAIN m

\* What the server may answer to the call c; a READ may return less than asked.
Answered(c) ==
  CASE c.proc = "LOOKUP" ->
         {Reply(c, IF c.name \in Names \ OtherNames THEN "ok" ELSE "err", c.name, 0, 0, FALSE)}
    [] c.proc = "READ" /\ c.name \in Files ->
         LET rest == FileLen[c.name] - c.offset
         IN  {Reply(c, "ok", c.name, c.offset, n, FALSE) :
                n \in IF rest <= 0 THEN {0} ELSE {k \in 1 .. NFS_READ_SIZE : k <= rest}}
    [] c.proc = "READ" /\ c.name \notin Files -> {Reply(c, "inval", <<>>, 0, 0, FALSE)}
    [] c.proc = "READLINK" /\ c.name \in Links ->
         {Reply(c, "ok", LinkTo[c.name].to, 0, 0, LinkTo[c.name].rel)}
    [] c.proc = "READLINK" /\ c.name \notin Links -> {Reply(c, "err", <<>>, 0, 0, FALSE)}
    [] OTHER -> {Reply(c, "ok", <<>>, 0, 0, FALSE)}

NfsServer(c) == \E r \in Answered(c) : rpc' = (rpc \ {c}) \cup {r}

\* Faults: the server refuses or answers twice, a packet is lost.
NfsServerFault(c) ==
  /\ Fault
  /\ \/ rpc' = (rpc \ {c}) \cup {Reply(c, "err", <<>>, 0, 0, FALSE)}
     \/ \E r \in Answered(c) : r \notin rpc /\ rpc' = rpc \cup {r}

RpcLoses(m) == Fault /\ rpc' = rpc \ {m}

MaxLen == CHOOSE n \in {FileLen[f] : f \in Files} : \A f \in Files : FileLen[f] <= n

NfsInit ==
  /\ NfsState = "PRCLOOKUP_MOUNT" /\ rpc_id = 0 /\ nfs_offset = -1
  /\ NfsDownloadState = "fail" /\ fs_mounted = FALSE /\ ports = {}
  /\ nfs_path_buff = [i \in 1 .. MaxName + 2 |-> NUL]
  /\ filefh = <<>> /\ mem = [i \in 0 .. MaxLen - 1 |-> NoBlock]
  /\ NetBootFileXferSize = 0 /\ asked = <<>> /\ rpc = {}

NfsTypeOK ==
  /\ NfsState \in {"PRCLOOKUP_MOUNT", "PRCLOOKUP_NFS", "MOUNT", "LOOKUP", "READ",
                   "READLINK", "UMOUNT"}
  /\ rpc_id \in Nat /\ nfs_offset \in -1 .. MaxLen
  /\ NfsDownloadState \in {"fail", "success"} /\ fs_mounted \in BOOLEAN
  /\ ports \subseteq {"MOUNT", "NFS"}
  /\ Len(nfs_path_buff) = MaxName + 2 /\ \E i \in DOMAIN nfs_path_buff : nfs_path_buff[i] = NUL
  /\ filefh \in Names \cup {<<>>} /\ asked \in Names \cup {<<>>}
  /\ mem \in [0 .. MaxLen - 1 -> (Names \X (0 .. MaxLen - 1)) \cup {NoBlock}]
  /\ NetBootFileXferSize \in 0 .. MaxLen

-----------------------------------------------------------------------------
(* Properties. *)

\* Whatever is lost, doubled, delayed or refused: when a command that loads by
\* NFS succeeds, the memory holds the whole file that the name given leads to,
\* and filesize is its length.
NfsComplete ==
  (NetState = "success" /\ asked # <<>>) =>
    /\ asked \in DOMAIN Goal
    /\ NetBootFileXferSize = FileLen[Goal[asked]]
    /\ \A i \in 0 .. FileLen[Goal[asked]] - 1 : mem[i] = <<Goal[asked], i>>
=============================================================================
