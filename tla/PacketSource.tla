---------------------------- MODULE PacketSource ----------------------------
(***************************************************************************)
(* What a caller of Cache::readPacket (src/lib/aviread/Cache.cpp) is       *)
(* promised, without threads, rings or condition variables: a request for  *)
(* a chunk of a stream is answered by that very chunk, or by "no packet"   *)
(* when the chunk lies outside the stream's table or its bytes cannot be   *)
(* read from the file.  StreamCache implements this module.                *)
(***************************************************************************)
EXTENDS Naturals

CONSTANTS
    Streams,        \* the streams of the file; each is read by one thread
    TableSize,      \* TableSize[s]: number of chunks in the index of stream s
    MayFail,        \* MayFail[s]: the chunks of s whose bytes may be unreadable
    NoPacket        \* the null pointer readPacket returns

VARIABLES
    pending,        \* pending[s]: a request on stream s has not been answered
    want,           \* want[s]: the chunk requested last
    reply           \* reply[s]: the last answer

vars == <<pending, want, reply>>

Chunks(s) == 0 .. TableSize[s] - 1

Init == /\ pending = [s \in Streams |-> FALSE]
        /\ want = [s \in Streams |-> 0]
        /\ reply = [s \in Streams |-> NoPacket]

Request(s, p) == /\ ~pending[s]
                 /\ p \in Chunks(s)
                 /\ pending' = [pending EXCEPT ![s] = TRUE]
                 /\ want' = [want EXCEPT ![s] = p]
                 /\ UNCHANGED reply

\* A position past the index is refused at once.
Refuse(s) == /\ ~pending[s]
             /\ want' = [want EXCEPT ![s] = TableSize[s]]
             /\ reply' = [reply EXCEPT ![s] = NoPacket]
             /\ UNCHANGED pending

Reply(s) == /\ pending[s]
            /\ pending' = [pending EXCEPT ![s] = FALSE]
            /\ \/ reply' = [reply EXCEPT ![s] = want[s]]
               \/ /\ want[s] \in MayFail[s]
                  /\ reply' = [reply EXCEPT ![s] = NoPacket]
            /\ UNCHANGED want

Next == \E s \in Streams : \/ \E p \in Chunks(s) : Request(s, p)
                           \/ Refuse(s)
                           \/ Reply(s)

SafeSpec == Init /\ [][Next]_vars

\* As long as some request is unanswered, requests go on being answered.
Spec == SafeSpec /\ WF_vars(\E s \in Streams : Reply(s))
=============================================================================
