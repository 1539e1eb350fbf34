-------------------------------- MODULE Blobs --------------------------------
(***************************************************************************)
(* Files, in both directions over a runner's connection.                   *)
(*                                                                         *)
(* A message's attachments are relayed before it: begin, chunks and end of *)
(* each go into the connection's bounded queue, then the message that      *)
(* names them.  A send into a full queue closes the connection.  What was  *)
(* queued is lost with the connection, while its senders were told it had  *)
(* been sent.  A message that could not be sent is stored and goes out on  *)
(* the next connection; attachments that were held for it go with it.      *)
(*                                                                         *)
(* The agent sends a file the other way, chunk by chunk, over whichever    *)
(* connection the runner has at the time; the gateway assembles it with    *)
(* the connection it came over.                                            *)
(***************************************************************************)
EXTENDS Naturals, FiniteSets, SequencesExt

CONSTANTS
  MaxFiles,    \* bound: attachments of the message
  FileNames,   \* names they may have; two may have the same
  FileChunks,  \* chunks of a file
  OutCap,      \* capacity of the connection's queue (256 in the code)
  MaxConns,    \* bound: connections
  MaxFaults    \* bound: failed reads and writes, and restarts of the runner

ASSUME BlobsAssumption ==
  /\ MaxFiles \in Nat \ {0} /\ FileChunks \in Nat \ {0} /\ OutCap \in Nat \ {0}
  /\ MaxConns \in Nat /\ MaxFaults \in Nat

Files   == 1 .. MaxFiles
Whole   == [i \in 1 .. FileChunks |-> i]  \* a file's chunks, as they are numbered
NoConn  == 0
Upload  == 0                              \* the file that the agent sends

VARIABLES
  nameOf,   \* attachment -> its name
  socket,     \* the runner's connection, or NoConn
  conns,    \* connections so far
  out,      \* frames queued for the runner
  row,      \* the message: "new", "relaying", "queued", "sent"
  stored,   \* attachments that the stored message names
  heldFor,  \* attachments are held for the message until it is drained
  drained,  \* the last connection that drained the queue
  relay,    \* the gateway's relay: where it is, over which connection
  blob,     \* runner: attachment -> its transfer
  onDisk,   \* runner: name -> what the file holds
  taking,   \* attachments that the runner's turn is about to take
  handed,   \* attachments handed to the harness, with their content
  sender,   \* runner: where sendFile is
  up,       \* frames on their way to the gateway
  spool,    \* the gateway's temporary file, with its connection
  uploaded, \* what the surface was given
  faults

relaySide == <<row, stored, heldFor, drained, relay>>
blobLink  == <<socket, conns, out>>
diskSide  == <<blob, onDisk, taking, handed>>
upSide    == <<sender, up, spool, uploaded>>
blobVars  == <<nameOf, relaySide, blobLink, diskSide, upSide, faults>>

NoRelay  == [at |-> "idle", on |-> NoConn, file |-> 1, chunk |-> 1, done |-> <<>>]
NoBlob   == [state |-> "none", hash |-> <<>>]
NoSpool  == [on |-> NoConn, hash |-> <<>>, failed |-> FALSE]
Frame(t, f, n) == [t |-> t, file |-> f, n |-> n, atts |-> <<>>]

\* A message with attachments that has come, or a file that is to be sent.
BlobsInit ==
  /\ nameOf \in [Files -> FileNames]
  /\ socket = NoConn /\ conns = 0 /\ out = <<>>
  /\ \/ row = "new" /\ sender = [at |-> "over", chunk |-> 1]
     \/ row = "sent" /\ sender = [at |-> "none", chunk |-> 1]
  /\ stored = <<>> /\ heldFor = FALSE /\ drained = NoConn
  /\ relay = NoRelay
  /\ blob = [f \in Files |-> NoBlob] /\ onDisk = [x \in FileNames |-> <<>>]
  /\ taking = <<>> /\ handed = {}
  /\ up = <<>> /\ spool = NoSpool /\ uploaded = {}
  /\ faults = 0

Fault == faults < MaxFaults /\ faults' = faults + 1

-----------------------------------------------------------------------------
(* The connection *)

\* sendRaw: into the queue; refused on a connection that is gone, which is also
\* what a full queue makes of it.
Accepts(on) == socket = on /\ Len(out) < OutCap
Queues(f)   == out' = Append(out, f) /\ UNCHANGED <<socket, conns>>
Refuses(on) ==
  /\ UNCHANGED conns
  /\ IF socket = on THEN socket' = NoConn /\ out' = <<>> /\ up' = <<>>
                  ELSE UNCHANGED <<socket, out, up>>

Dials ==
  /\ socket = NoConn /\ conns < MaxConns
  /\ socket' = conns + 1 /\ conns' = conns + 1
  /\ UNCHANGED <<nameOf, out, relaySide, diskSide, upSide, faults>>
Lost == socket' = NoConn /\ out' = <<>> /\ up' = <<>>
Drops ==
  /\ socket # NoConn
  /\ Lost
  /\ UNCHANGED <<nameOf, conns, relaySide, diskSide, sender, spool, uploaded, faults>>

-----------------------------------------------------------------------------
(* The gateway relays attachments *)

\* dispatchTurn's part in it.
DispatchFiles ==
  /\ row = "new"
  /\ IF socket # NoConn
     THEN row' = "relaying" /\ relay' = [NoRelay EXCEPT !.at = "begin", !.on = socket]
          /\ UNCHANGED heldFor
     ELSE row' = "queued" /\ heldFor' = TRUE /\ UNCHANGED relay
  /\ UNCHANGED <<nameOf, stored, drained, blobLink, diskSide, upSide, faults>>

\* drainQueue and withHeldFiles, once per connection.
DrainFiles ==
  /\ row = "queued" /\ socket # NoConn /\ drained # socket /\ relay.at = "idle"
  /\ drained' = socket
  /\ heldFor' = FALSE
  /\ relay' = [NoRelay EXCEPT !.at = IF heldFor THEN "begin" ELSE "message", !.on = socket]
  /\ UNCHANGED <<nameOf, row, stored, blobLink, diskSide, upSide, faults>>

\* relayOne, a frame at a time.
NextFrame == Frame(relay.at, relay.file, relay.chunk)
AfterFrame ==
  CASE relay.at = "begin" -> [relay EXCEPT !.at = "chunk"]
    [] relay.at = "chunk" -> [relay EXCEPT !.at = IF relay.chunk = FileChunks THEN "end" ELSE "chunk",
                                           !.chunk = @ + 1]
    [] relay.at = "end"   -> [relay EXCEPT !.at = IF relay.file = MaxFiles THEN "message" ELSE "begin",
                                           !.file = @ + 1, !.chunk = 1,
                                           !.done = Append(@, relay.file)]
RelayFrame ==
  /\ relay.at \in {"begin", "chunk", "end"}
  /\ IF Accepts(relay.on)
     THEN Queues(NextFrame) /\ relay' = AfterFrame /\ UNCHANGED up
     ELSE Refuses(relay.on) /\ relay' = [relay EXCEPT !.at = "message"]
  /\ UNCHANGED <<nameOf, row, stored, heldFor, drained, diskSide, sender, spool, uploaded, faults>>
\* The surface fails to open or read the file: the runner is told, if it can be.
RelayFails ==
  /\ Fault
  /\ relay.at = "chunk"
  /\ relay' = [relay EXCEPT !.at = "message"]
  /\ IF Accepts(relay.on) THEN Queues(Frame("bad end", relay.file, 0)) /\ UNCHANGED up
                          ELSE Refuses(relay.on)
  /\ UNCHANGED <<nameOf, row, stored, heldFor, drained, diskSide, sender, spool, uploaded>>

\* The message goes out with what was relayed.  The stored one names what was
\* relayed when it was stored, and nothing that was held for it.
RelayMessage ==
  /\ relay.at = "message"
  /\ relay' = NoRelay
  /\ LET atts == stored \o relay.done IN
     IF Accepts(relay.on)
     THEN /\ Queues([Frame("message", 1, 0) EXCEPT !.atts = atts])
          /\ row' = "sent"
          /\ UNCHANGED <<stored, up>>
     ELSE /\ Refuses(relay.on)
          /\ row' = "queued"
          /\ stored' = IF row = "relaying" THEN atts ELSE stored
  /\ UNCHANGED <<nameOf, heldFor, drained, diskSide, sender, spool, uploaded, faults>>

-----------------------------------------------------------------------------
(* The runner receives them *)

Arrives(t) == out # <<>> /\ Head(out).t = t /\ out' = Tail(out)
SetBlob(f, b) == blob' = [blob EXCEPT ![f] = b]
WritesTo(f, text) == onDisk' = [onDisk EXCEPT ![nameOf[f]] = text]

\* onBlobBegin: a file of that name is truncated.
BlobBegin ==
  /\ Arrives("begin")
  /\ LET f == Head(out).file IN
     /\ SetBlob(f, [state |-> "open", hash |-> <<>>])
     /\ WritesTo(f, <<>>)
  /\ UNCHANGED <<nameOf, socket, conns, relaySide, taking, handed, upSide, faults>>
BlobBeginFails ==
  /\ Fault
  /\ Arrives("begin")
  /\ UNCHANGED <<nameOf, socket, conns, relaySide, diskSide, upSide>>
\* onChunk.
BlobChunk ==
  /\ Arrives("chunk")
  /\ LET f == Head(out).file IN
     IF blob[f].state = "open"
     THEN /\ SetBlob(f, [blob[f] EXCEPT !.hash = Append(@, Head(out).n)])
          /\ WritesTo(f, Append(onDisk[nameOf[f]], Head(out).n))
     ELSE UNCHANGED <<blob, onDisk>>
  /\ UNCHANGED <<nameOf, socket, conns, relaySide, taking, handed, upSide, faults>>
BlobChunkFails ==
  /\ Fault
  /\ Arrives("chunk")
  /\ blob[Head(out).file].state = "open"
  /\ SetBlob(Head(out).file, [blob[Head(out).file] EXCEPT !.state = "failed"])
  /\ UNCHANGED <<nameOf, socket, conns, relaySide, onDisk, taking, handed, upSide>>
\* onBlobEnd: verified, or removed.
BlobEnd ==
  /\ Arrives("end") \/ Arrives("bad end")
  /\ LET f == Head(out).file  b == blob[f] IN
     IF b.state = "none" THEN UNCHANGED <<blob, onDisk>>
     ELSE IF Head(out).t = "end" /\ b.state = "open" /\ b.hash = Whole
     THEN SetBlob(f, [b EXCEPT !.state = "complete"]) /\ UNCHANGED onDisk
     ELSE SetBlob(f, NoBlob) /\ WritesTo(f, <<>>)
  /\ UNCHANGED <<nameOf, socket, conns, relaySide, taking, handed, upSide, faults>>

HandleMessage ==
  /\ Arrives("message")
  /\ taking' = Head(out).atts
  /\ UNCHANGED <<nameOf, socket, conns, relaySide, blob, onDisk, handed, upSide, faults>>
\* takeBlob.  What is left in place may still be claimed.
OpenWillDo(f) == blob[f].state \in {"open", "complete"}  \* mutant: complete is not looked at
Claimable(f) == blob[f].state = "complete"
TakeBlob ==
  /\ taking # <<>>
  /\ taking' = Tail(taking)
  /\ LET f == Head(taking) IN
     IF Claimable(f)
     THEN /\ SetBlob(f, NoBlob)
          /\ handed' = handed \cup {[file |-> f, content |-> onDisk[nameOf[f]]]}
     ELSE UNCHANGED <<blob, handed>>
  /\ UNCHANGED <<nameOf, blobLink, relaySide, onDisk, upSide, faults>>
\* The transfers are in memory, the files are not.
RunnerRestarts ==
  /\ Fault
  /\ blob' = [f \in Files |-> NoBlob]
  /\ taking' = <<>>
  /\ sender' = [sender EXCEPT !.at = "over"]
  /\ Lost
  /\ UNCHANGED <<nameOf, conns, relaySide, onDisk, handed, spool, uploaded>>

-----------------------------------------------------------------------------
(* The agent sends a file *)

\* sendFile, a write at a time; writes need a connection, not the same one.
SendFile ==
  /\ sender.at \in {"none", "chunk", "end"}
  /\ IF socket = NoConn
     THEN sender' = [sender EXCEPT !.at = "over"] /\ UNCHANGED up
     ELSE /\ up' = Append(up, Frame(IF sender.at = "none" THEN "begin" ELSE sender.at,
                                    Upload, sender.chunk))
          /\ sender' =
               CASE sender.at = "none"  -> [sender EXCEPT !.at = "chunk"]
                 [] sender.at = "chunk" -> [at |-> IF sender.chunk = FileChunks THEN "end" ELSE "chunk",
                                            chunk |-> sender.chunk + 1]
                 [] sender.at = "end"   -> [sender EXCEPT !.at = "over"]
  /\ UNCHANGED <<nameOf, blobLink, relaySide, diskSide, spool, uploaded, faults>>
\* The file cannot be read to its end.
SendFileFails ==
  /\ Fault
  /\ sender.at = "chunk" /\ socket # NoConn
  /\ up' = Append(up, Frame("bad end", Upload, 0))
  /\ sender' = [sender EXCEPT !.at = "over"]
  /\ UNCHANGED <<nameOf, blobLink, relaySide, diskSide, spool, uploaded>>

Comes(t) == up # <<>> /\ Head(up).t = t /\ up' = Tail(up)
\* The gateway's onBlobBegin, onChunk and onBlobEnd look in their connection's map.
SpoolBegin ==
  /\ Comes("begin")
  /\ spool' = [NoSpool EXCEPT !.on = socket]
  /\ UNCHANGED <<nameOf, blobLink, relaySide, diskSide, sender, uploaded, faults>>
SpoolChunk ==
  /\ Comes("chunk")
  /\ spool' = IF spool.on = socket /\ ~spool.failed
              THEN [spool EXCEPT !.hash = Append(@, Head(up).n)] ELSE spool
  /\ UNCHANGED <<nameOf, blobLink, relaySide, diskSide, sender, uploaded, faults>>
SpoolFails ==
  /\ Fault
  /\ Comes("chunk")
  /\ spool.on = socket
  /\ spool' = [spool EXCEPT !.failed = TRUE]
  /\ UNCHANGED <<nameOf, blobLink, relaySide, diskSide, sender, uploaded>>
\* What is whole is uploaded, if the turn is still there and the surface takes it.
SpoolEnd ==
  /\ Comes("end") \/ Comes("bad end")
  /\ IF spool.on = socket
     THEN /\ spool' = NoSpool
          /\ \/ Head(up).t = "end" /\ spool.hash = Whole /\ uploaded' = uploaded \cup {spool.hash}
            \/ UNCHANGED uploaded
     ELSE UNCHANGED <<spool, uploaded>>
  /\ UNCHANGED <<nameOf, blobLink, relaySide, diskSide, sender, faults>>

-----------------------------------------------------------------------------
BlobsNext ==
  \/ Dials
  \/ Drops
  \/ DispatchFiles
  \/ DrainFiles
  \/ RelayFrame
  \/ RelayFails
  \/ RelayMessage
  \/ BlobBegin
  \/ BlobBeginFails
  \/ BlobChunk
  \/ BlobChunkFails
  \/ BlobEnd
  \/ HandleMessage
  \/ TakeBlob
  \/ RunnerRestarts
  \/ SendFile
  \/ SendFileFails
  \/ SpoolBegin
  \/ SpoolChunk
  \/ SpoolFails
  \/ SpoolEnd
BlobsSpec == BlobsInit /\ [][BlobsNext]_blobVars

-----------------------------------------------------------------------------
(* Properties *)

\* A file reaches the harness or the surface whole or not at all, whatever was
\* lost with a connection, failed or restarted on the way; an attachment's name
\* must not be used twice (takeBlob, onBlobEnd).
Intact ==
  /\ \A h \in handed :
       h.content = Whole \/ \E f \in Files \ {h.file} : nameOf[f] = nameOf[h.file]
  /\ uploaded \subseteq {Whole}
=============================================================================
