----------------------------- MODULE SocketMuxer -----------------------------
(***************************************************************************)
(* ccxx::SocketMuxer and its Connections on POSIX: one thread that accepts *)
(* connections, waits for all of them in select(), and moves bytes between *)
(* their sockets and their buffers; its callbacks and other threads write, *)
(* read and close connections meanwhile, and writeAll() writes to all.     *)
(*                                                                         *)
(* Bytes are counted, not told apart.  An accepted socket is blocking, as  *)
(* accept() makes it: a write waits until the peer has taken everything.   *)
(* The connection object is deleted by connectionClosed() and              *)
(* connectionTimedOut(), as their contract asks, so its name can be used   *)
(* for a new one; exceptionOccurred() is the default one, and the low mark *)
(* of the read buffer, which only picks the callback, is left out.         *)
(***************************************************************************)
EXTENDS StaticObjectPool, Naturals

CONSTANTS Conns,        \* the connection objects
          NoConn,       \* not a connection
          BufferSize,   \* size of either buffer of a connection (a bound)
          Room,         \* what a connection's way to the peer holds (a bound)
          WriteLoMark,  \* _writeLoMark
          ClosesNow,    \* does the application call close(true)?
          Faults        \* do signals reach the thread, and peers end connections?

ASSUME MuxerAssumption ==
  /\ NoConn \notin Conns /\ NoSocket \notin Sockets /\ IsFiniteSet(Sockets)
  /\ {BufferSize, Room, WriteLoMark} \subseteq Nat \ {0}
  /\ {ClosesNow, Faults} \subseteq BOOLEAN

VARIABLES
  conn,                 \* the members of each Connection
  net,                  \* each socket's descriptor, and what is under way
  list,                 \* _connections
  mutex,                \* who has _mutex: "none", "muxer" or "writer"
  pc, pos, fds,         \* run(): where it is, iter, the sets of select()
  left,                 \* what writev() has still to hand over
  next,                 \* writeAll(): iter
  fate                  \* of a connection object: "live", "gone" (not in use, or
                        \* reported closed and deleted) or "lost" (dropped)

cvars == <<conn, list, fate>>
mvars == <<pc, pos, fds, left>>
wvars == <<mutex, next>>
vars  == <<free, net, cvars, mvars, wvars>>

NoSets == [read |-> {}, write |-> {}]
Closed == [fd |-> 0, in |-> 0, room |-> Room, peer |-> "open"]

New(s) == [sock |-> s, readBuf |-> 0, writeBuf |-> 0, pending |-> FALSE,
           readLock |-> FALSE, writeLock |-> FALSE]

Init ==
  /\ PoolInit
  /\ net = [s \in Sockets |-> Closed]
  /\ conn = [c \in Conns |-> New(NoSocket)]
  /\ list = << >> /\ fate = [c \in Conns |-> "gone"]
  /\ pc = "select" /\ pos = 1 /\ fds = NoSets /\ left = 0
  /\ mutex = "none" /\ next = NoConn

Goto(there) == pc' = there
Listed   == ToSet(list)
Fd(c)    == net[conn[c].sock].fd
IsOpen(c) == Fd(c) # 0
IsWriteLow(c)  == conn[c].writeBuf < WriteLoMark
IsReadHigh(c)  == conn[c].readBuf >= BufferSize

\* Mutant of IsClosePending: the test of the buffer is the wrong way round.
IsCloseHeldBack(c) == conn[c].pending /\ conn[c].writeBuf > 0

IsClosePending(c) == conn[c].pending /\ conn[c].writeBuf = 0

-----------------------------------------------------------------------------
(* The thread of the muxer                                                 *)

\* select(), for the descriptors of the connections that want it: it returns
\* those that are ready, perhaps none.
Selects ==
  LET Is(c) == net[conn[c].sock] IN
  /\ pc = "select"
  /\ fds' = [read  |-> {Fd(c) : c \in {d \in Listed : IsOpen(d) /\ ~IsReadHigh(d)
                                    /\ (Is(d).in > 0 \/ Is(d).peer # "open")}},
             write |-> {Fd(c) : c \in {d \in Listed : IsOpen(d) /\ ~IsWriteLow(d)
                                    /\ (Is(d).room > 0 \/ Is(d).peer = "reset")}}]
  /\ Goto("accept")
  /\ UNCHANGED <<free, net, cvars, wvars, pos, left>>

\* select() fails: after a signal, for the result is compared with EINTR, not
\* errno; or because of a descriptor that is closed (FD_SET(-1) sets a bit of
\* some other number).  The loop ends.
SelectFails ==
  /\ pc = "select"
  /\ Faults \/ \E c \in Listed : ~IsOpen(c)
  /\ Goto("cleanup")
  /\ UNCHANGED <<free, net, cvars, wvars, pos, fds, left>>

\* testCancel() is true
Stops ==
  /\ pc = "select"
  /\ Goto("cleanup")
  /\ UNCHANGED <<free, net, cvars, wvars, pos, fds, left>>

\* accept() returns the lowest descriptor that is not in use.
FreeFd == CHOOSE n \in 1 .. Cardinality(Sockets) :
            /\ \A s \in Sockets : net[s].fd # n
            /\ \A k \in 1 .. (n - 1) : \E s \in Sockets : net[s].fd = k

\* Somebody connects, there is a place for the socket, and connectionReady()
\* returns a new connection: push_back() without _mutex.
Accepts(c) ==
  /\ pc = "accept" /\ fate[c] = "gone" /\ c \notin Listed
  /\ \E s \in Sockets : /\ Reserve(s)
                        /\ net' = [net EXCEPT ![s].fd = FreeFd]
                        /\ conn' = [conn EXCEPT ![c] = New(s)]
  /\ list' = Append(list, c)
  /\ fate' = [fate EXCEPT ![c] = "live"]
  /\ Goto("scan")
  /\ UNCHANGED <<wvars, pos, fds, left>>

\* Somebody connects, but accept() throws a SocketException or connectionReady()
\* returns NULL: the place is given back.
Refuses ==
  /\ pc = "accept" /\ ~PoolIsEmpty
  /\ Goto("scan")
  /\ UNCHANGED <<free, net, cvars, wvars, pos, fds, left>>

\* The peer has gone again, and accept() throws a TimeoutException, as it may on a
\* server socket with a timeout or a non-blocking one: nobody catches it in run(),
\* the place is not given back, and the thread goes to its cleanup().
AcceptTimesOut ==
  /\ pc = "accept" /\ Faults
  /\ \E s \in Sockets : Reserve(s)
  /\ Goto("cleanup")
  /\ UNCHANGED <<net, cvars, wvars, pos, fds, left>>

\* Mutant of Locks: without _mutex.
LocksNothing ==
  /\ pc \in {"accept", "scan"}
  /\ Goto("next")
  /\ UNCHANGED <<free, net, cvars, pos, fds, left, wvars>>

\* accept() is done; or nobody had connected, or there was no place, and the
\* new connection was closed at once.
Locks ==
  /\ pc \in {"accept", "scan"} /\ mutex = "none"
  /\ mutex' = "muxer"
  /\ Goto("next")
  /\ UNCHANGED <<free, net, cvars, pos, fds, left, next>>

\* Mutant of PassDone: new connections are accepted again before select().
PassDoneAccepts ==
  /\ pc = "next" /\ pos > Len(list)
  /\ mutex' = "none" /\ pos' = 1
  /\ \/ Goto("select") /\ fds' = NoSets
     \/ Goto("accept") /\ UNCHANGED fds
  /\ UNCHANGED <<free, net, cvars, left, next>>

PassDone ==
  /\ pc = "next" /\ pos > Len(list)
  /\ mutex' = "none" /\ fds' = NoSets /\ pos' = 1
  /\ Goto("select")
  /\ UNCHANGED <<free, net, cvars, left, next>>

At(c) == pos <= Len(list) /\ c = list[pos]

\* conn->close(true), release(sock), connectionClosed(conn) (or TimedOut)
Ends(c) ==
  /\ net' = [net EXCEPT ![conn[c].sock] = Closed]
  /\ Release(conn[c].sock)
  /\ fate' = [fate EXCEPT ![c] = "gone"]
  /\ Goto("check")

\* Mutant of Fails: exceptionOccurred() leaves the socket open.
FailsOnly(c) ==
  /\ c \in Conns /\ Goto("check")
  /\ UNCHANGED <<net, free, fate>>

\* exceptionOccurred(): the socket is closed, but nobody releases it and the
\* application is not told.
Fails(c) ==
  /\ net' = [net EXCEPT ![conn[c].sock] = Closed]
  /\ Goto("check")
  /\ UNCHANGED <<free, fate>>

\* FD_ISSET(-1, ...) reads some other bit: it may be set or not.
IsSet(c, set)   == Fd(c) \in set \/ ~IsOpen(c)
IsUnset(c, set) == Fd(c) \notin set

ClosesAsAsked(c) ==
  /\ pc = "next" /\ At(c) /\ IsClosePending(c)
  /\ Ends(c)
  /\ UNCHANGED <<conn, list, wvars, pos, fds, left>>

\* conn->_readLock.enter(), and read() up to readv().  What is thrown skips
\* _readLock.leave().
BeginsRead(c) ==
  /\ pc = "next" /\ At(c) /\ ~IsClosePending(c) /\ IsSet(c, fds.read)
  /\ conn' = [conn EXCEPT ![c].readLock = TRUE]
  /\ \/ IsOpen(c) /\ Goto("reading") /\ UNCHANGED <<free, net, fate>>
     \/ ~IsOpen(c) /\ Fails(c)
  /\ UNCHANGED <<list, wvars, pos, fds, left>>

\* readv() returns as much as there is (or is not called for a full buffer).
ReadsData(c) ==
  LET s == conn[c].sock
      k == Min({net[s].in, BufferSize - conn[c].readBuf})
  IN /\ pc = "reading" /\ At(c) /\ IsOpen(c)
     /\ net[s].in > 0 \/ conn[c].readBuf = BufferSize
     /\ net' = [net EXCEPT ![s].in = @ - k]
     /\ conn' = [conn EXCEPT ![c].readBuf = @ + k, ![c].readLock = FALSE]
     /\ Goto("check")
     /\ UNCHANGED <<free, list, fate, wvars, pos, fds, left>>

\* readv() returns 0: the peer, or close(true) meanwhile, has ended the stream.
ReadsEnd(c) ==
  /\ pc = "reading" /\ At(c)
  /\ IsOpen(c) => net[conn[c].sock].peer = "fin" /\ net[conn[c].sock].in = 0
  /\ Ends(c)
  /\ UNCHANGED <<conn, list, wvars, pos, fds, left>>

\* readv() fails
ReadFails(c) ==
  /\ pc = "reading" /\ At(c)
  /\ IsOpen(c) => net[conn[c].sock].peer = "reset"
  /\ Fails(c)
  /\ UNCHANGED <<conn, list, wvars, pos, fds, left>>

\* conn->_writeLock.enter(), and write() up to writev()
BeginsWrite(c) ==
  /\ pc = "next" /\ At(c) /\ ~IsClosePending(c)
  /\ IsUnset(c, fds.read) /\ IsSet(c, fds.write)
  /\ conn' = [conn EXCEPT ![c].writeLock = TRUE]
  /\ \/ /\ IsOpen(c) /\ Goto("writing")
        /\ left' = conn[c].writeBuf
        /\ UNCHANGED <<free, net, fate>>
     \/ ~IsOpen(c) /\ Fails(c) /\ UNCHANGED left
  /\ UNCHANGED <<list, wvars, pos, fds>>

\* writev() hands a byte over; it waits while the way to the peer is full.
Hands(c) ==
  /\ pc = "writing" /\ At(c) /\ IsOpen(c) /\ left > 0
  /\ net[conn[c].sock].peer # "reset" /\ net[conn[c].sock].room > 0
  /\ net' = [net EXCEPT ![conn[c].sock].room = @ - 1]
  /\ left' = left - 1
  /\ UNCHANGED <<free, cvars, wvars, pc, pos, fds>>

\* writev() returns: all is handed over, or the connection broke in the middle.
WriteDone(c) ==
  /\ pc = "writing" /\ At(c)
  /\ \/ left = 0
     \/ /\ left < conn[c].writeBuf
        /\ IsOpen(c) => net[conn[c].sock].peer = "reset"
  /\ conn' = [conn EXCEPT ![c].writeBuf = left, ![c].writeLock = FALSE]
  /\ left' = 0
  /\ Goto("check")
  /\ UNCHANGED <<free, net, list, fate, wvars, pos, fds>>

\* writev() fails
WriteFails(c) ==
  /\ pc = "writing" /\ At(c) /\ left > 0 /\ left = conn[c].writeBuf
  /\ IsOpen(c) => net[conn[c].sock].peer = "reset"
  /\ left' = 0
  /\ Fails(c)
  /\ UNCHANGED <<conn, list, wvars, pos, fds>>

\* Urgent data: readOOB(), within _readLock, or an error there.  The flag that
\* keeps c out of the set until the application has taken the byte is left out.
ReadsOOB(c) ==
  /\ pc = "next" /\ At(c) /\ ~IsClosePending(c)
  /\ IsUnset(c, fds.read) /\ IsUnset(c, fds.write)
  /\ \/ IsOpen(c) /\ Goto("check") /\ UNCHANGED <<conn, free, net, fate>>
     \/ /\ IsOpen(c) => net[conn[c].sock].peer # "open"
        /\ conn' = [conn EXCEPT ![c].readLock = TRUE]
        /\ Fails(c)
  /\ UNCHANGED <<list, wvars, pos, fds, left>>

\* No descriptor of c is set: it is ended if its idle limit has passed.
PassesBy(c) ==
  /\ pc = "next" /\ At(c) /\ ~IsClosePending(c)
  /\ IsUnset(c, fds.read) /\ IsUnset(c, fds.write)
  /\ \/ Ends(c)
     \/ Goto("check") /\ UNCHANGED <<free, net, fate>>
  /\ UNCHANGED <<conn, list, wvars, pos, fds, left>>

\* A connection whose socket is closed leaves the list, told or not.  One that is
\* dropped untold stays as it is: a lock that an exception has skipped is never
\* left, and whoever waits for it, or comes later, waits for ever.
Checks ==
  LET c == list[pos] IN
  /\ pc = "check"
  /\ \/ IsOpen(c) /\ pos' = pos + 1 /\ UNCHANGED <<conn, list, fate>>
     \/ /\ ~IsOpen(c) /\ UNCHANGED pos
        /\ list' = RemoveAt(list, pos)
        /\ conn' = [conn EXCEPT ![c] = IF fate[c] = "gone" THEN New(NoSocket) ELSE @]
        /\ fate' = [fate EXCEPT ![c] = IF @ = "gone" THEN @ ELSE "lost"]
  /\ Goto("next")
  /\ UNCHANGED <<free, net, fds, left, wvars>>

\* cleanup(), at the end of the thread: every connection is closed and told.
Cleanup ==
  /\ pc = "cleanup" /\ mutex = "none"
  /\ net' = [s \in Sockets |-> Closed]
  /\ ReleaseAll([i \in DOMAIN list |-> conn[list[i]].sock])
  /\ conn' = [c \in Conns |-> IF c \in Listed THEN New(NoSocket) ELSE conn[c]]
  /\ fate' = [c \in Conns |-> IF c \in Listed THEN "gone" ELSE fate[c]]
  /\ list' = << >>
  /\ Goto("ended")
  /\ UNCHANGED <<wvars, pos, fds, left>>

Handles(c) ==
  \/ ClosesAsAsked(c) \/ PassesBy(c) \/ ReadsOOB(c)
  \/ BeginsRead(c) \/ ReadsData(c) \/ ReadsEnd(c) \/ ReadFails(c)
  \/ BeginsWrite(c) \/ Hands(c) \/ WriteDone(c) \/ WriteFails(c)

Runs == Selects \/ Refuses \/ Locks \/ PassDone
          \/ Checks \/ Cleanup \/ \E c \in Conns : Accepts(c) \/ Handles(c)

-----------------------------------------------------------------------------
(* The application: callbacks and other threads                            *)

\* A connection that was dropped is used on: the application does not know.
Uses(c) == /\ fate[c] \in {"live", "lost"}
           /\ UNCHANGED <<free, list, fate, mvars, wvars>>

\* enter(): a thread that calls waits as long as the muxer is in, which for a dropped
\* connection may be for ever; but not in a callback, which is called by the
\* muxer's thread, for the locks are recursive.
Enters(c, lock) == lock => fate[c] = "lost" /\ pc \in {"accept", "check", "cleanup"}

\* Mutant of Writes: the free space is not looked at.
WritesAnyway(c) ==
  /\ Uses(c) /\ Enters(c, conn[c].writeLock)
  /\ conn' = [conn EXCEPT ![c].writeBuf = @ + 1]
  /\ UNCHANGED net

\* writeData() of one byte: refused by a full buffer
Writes(c) ==
  /\ Uses(c) /\ Enters(c, conn[c].writeLock) /\ conn[c].writeBuf < BufferSize
  /\ conn' = [conn EXCEPT ![c].writeBuf = @ + 1]
  /\ UNCHANGED net

\* readData() of everything
Reads(c) ==
  /\ Uses(c) /\ Enters(c, conn[c].readLock) /\ conn[c].readBuf > 0
  /\ conn' = [conn EXCEPT ![c].readBuf = 0]
  /\ UNCHANGED net

\* close()
Closes(c) ==
  /\ Uses(c) /\ ~conn[c].pending
  /\ conn' = [conn EXCEPT ![c].pending = TRUE]
  /\ UNCHANGED net

\* close(true)
ClosesAtOnce(c) ==
  /\ Uses(c) /\ ClosesNow /\ IsOpen(c)
  /\ net' = [net EXCEPT ![conn[c].sock] = Closed]
  /\ UNCHANGED conn

\* writeAll(), by another thread: _mutex, and begin()
BeginsWriteAll ==
  /\ mutex = "none" /\ list # << >>
  /\ mutex' = "writer" /\ next' = Head(list)
  /\ UNCHANGED <<free, net, cvars, mvars>>

\* writeData() of one byte to the next connection, and ++iter
WritesNext ==
  LET i == CHOOSE j \in DOMAIN list : list[j] = next IN
  /\ next \in Listed /\ ~conn[next].writeLock
  /\ conn' = [conn EXCEPT ![next].writeBuf = IF @ < BufferSize THEN @ + 1 ELSE @]
  /\ \/ i < Len(list) /\ next' = list[i + 1] /\ UNCHANGED mutex
     \/ i = Len(list) /\ next' = NoConn /\ mutex' = "none"
  /\ UNCHANGED <<free, net, list, fate, mvars>>

Application ==
  \/ \E c \in Conns : Writes(c) \/ Reads(c) \/ Closes(c) \/ ClosesAtOnce(c)
  \/ BeginsWriteAll \/ WritesNext

-----------------------------------------------------------------------------
(* The peers                                                               *)

Peer(s, new) == /\ net[s].fd # 0
                /\ net' = [net EXCEPT ![s] = new]
                /\ UNCHANGED <<free, cvars, mvars, wvars>>

PeerSends(s) == /\ net[s].peer = "open" /\ net[s].in < BufferSize
                /\ Peer(s, [net[s] EXCEPT !.in = @ + 1])
PeerTakes(s) == net[s].room < Room /\ Peer(s, [net[s] EXCEPT !.room = Room])
PeerEnds(s)  == Faults /\ net[s].peer = "open" /\ Peer(s, [net[s] EXCEPT !.peer = "fin"])
PeerResets(s) == /\ Faults /\ net[s].peer # "reset"
                 /\ Peer(s, [net[s] EXCEPT !.peer = "reset", !.in = 0])

Peers == \E s \in Sockets : PeerSends(s) \/ PeerTakes(s) \/ PeerEnds(s) \/ PeerResets(s)

Next == Runs \/ SelectFails \/ Stops \/ AcceptTimesOut \/ Application \/ Peers

\* The muxer's thread and a writeAll() under way go on, the thread gets _mutex
\* at some time, and peers keep taking what is sent to them.
Fairness == /\ WF_vars(Runs) /\ SF_vars(Locks \/ Cleanup) /\ WF_vars(WritesNext)
            /\ \A s \in Sockets : WF_vars(PeerTakes(s))

Spec == Init /\ [][Next]_vars /\ Fairness

-----------------------------------------------------------------------------
(* Properties                                                              *)

\* Every variable has its type, and the muxer handles a listed connection.
TypeOK ==
  /\ free \in Seq(Sockets)
  /\ conn \in [Conns -> [sock : Sockets \cup {NoSocket}, readBuf : 0 .. BufferSize,
                         writeBuf : 0 .. BufferSize, pending : BOOLEAN,
                         readLock : BOOLEAN, writeLock : BOOLEAN]]
  /\ net \in [Sockets -> [fd : 0 .. Cardinality(Sockets), in : 0 .. BufferSize,
                          room : 0 .. Room, peer : {"open", "fin", "reset"}]]
  /\ list \in Seq(Conns)
  /\ fate \in [Conns -> {"gone", "live", "lost"}]
  /\ mutex \in {"none", "muxer", "writer"}
  /\ pc \in {"select", "accept", "scan", "next", "reading", "writing", "check",
             "cleanup", "ended"}
  /\ pos \in Nat \ {0} /\ left \in 0 .. BufferSize
  /\ next \in Conns \cup {NoConn}
  /\ fds \in [{"read", "write"} -> SUBSET (1 .. Cardinality(Sockets))]
  /\ pc \in {"reading", "writing", "check"} => pos \in DOMAIN list

Holds(c) == fate[c] \in {"live", "lost"}

\* the places that are neither free nor some connection's
Missing == {s \in Sockets \ ToSet(free) : \A c \in Conns : Holds(c) => conn[c].sock # s}

\* No place of the pool is given to two, given back twice or forgotten: it is
\* free, once, or some connection's.  (A connection that left the list without
\* connectionClosed() or connectionTimedOut() keeps its place for ever; and the
\* one place reserved for an accept() that timed out is missing from then on, but
\* then the loop is over.)  And a connection is in the list until the application
\* is told of its end, or it is dropped, so that cleanup() at the end of the thread
\* reaches it.
SlotsAccountedFor ==
  /\ IsInjective(free)
  /\ \A c \in Conns : Holds(c) => conn[c].sock \in Sockets \ ToSet(free)
  /\ \A c, d \in Conns :
       Holds(c) /\ Holds(d) /\ conn[c].sock = conn[d].sock => c = d
  /\ \A s, t \in Missing : s = t /\ pc \in {"cleanup", "ended"}
  /\ \A c \in Conns : fate[c] = "live" => c \in Listed
  /\ pc = "ended" => list = << >>

\* Although an exception skips the leave(), the muxer keeps a lock of a listed
\* connection only while it handles it or when it is about to drop it: no connection
\* that stays is left locked.  Nothing is said of one that is dropped: a thread that
\* waits in its writeData() or readData() then, or calls it later, waits for ever.
ListedLocksAreFree ==
  \A c \in Listed : conn[c].readLock \/ conn[c].writeLock
    => /\ pc \in {"reading", "writing", "check"} /\ c = list[pos]
       /\ pc = "check" => ~IsOpen(c)

\* The connection at which a writeAll() has arrived is in the list, has not been
\* reported closed (and so deleted), and its lock is free: writeAll(), which has
\* _mutex, waits for nobody, wherever the muxer is.
WriteAllHoldsAConnection ==
  mutex = "writer" =>
    next \in Listed /\ fate[next] = "live" /\ ~conn[next].writeLock

\* While a writeAll() goes through the list, with _mutex, the list only grows at
\* its end: the iterator stays good, though connections are accepted without
\* _mutex, and no connection is passed over.
ListIsSteadyForWriteAll ==
  [][mutex = "writer" =>
       \A i \in DOMAIN list : i \in DOMAIN list' /\ list'[i] = list[i]]_vars

\* The muxer reads from a socket only if there is something to read, so that
\* no silent peer holds it up, as long as nobody calls close(true): then the
\* number of a closed descriptor, still in the sets of select(), cannot be that
\* of a connection accepted in between.
ReadDoesNotBlock ==
  ~ClosesNow /\ pc = "reading"
    => LET c == list[pos] IN
       ~IsOpen(c) \/ conn[c].readBuf = BufferSize
         \/ net[conn[c].sock].in > 0 \/ net[conn[c].sock].peer # "open"

KeepsSending(c) == []<><<fate[c] = "live" /\ net'[conn[c].sock].in > net[conn[c].sock].in>>_vars
KeepsWriting(c) == []<><<fate[c] = "live" /\ conn'[c].writeBuf > conn[c].writeBuf>>_vars

\* A close that was asked for is carried out, unless the peer sends for ever
\* (what comes in goes before what goes out) or the application, with a
\* writeAll() for instance, goes on writing to the connection for ever.
PendingCloseIsDone ==
  \A c \in Conns : \/ KeepsSending(c)
                   \/ KeepsWriting(c)
                   \/ (fate[c] = "live" /\ conn[c].pending) ~> ~(fate[c] = "live" /\ conn[c].pending)

\* What makes that so: as long as a connection is live nothing takes back the
\* request to close it, and the muxer does not pass it by, whatever select() found
\* and whatever fails, when there is nothing left to write.
PendingCloseStands ==
  [][\A c \in Conns : fate[c] = "live" /\ conn[c].pending /\ fate'[c] = "live"
       => /\ conn'[c].pending
          /\ pc = "next" /\ At(c) /\ conn[c].writeBuf = 0 => pc' = "next"]_vars
=============================================================================
