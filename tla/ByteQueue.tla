------------------------------ MODULE ByteQueue ------------------------------
(***************************************************************************)
(* What a Buffer promises: a sequence of bytes that is read from the front *)
(* and written at either end.                                              *)
(***************************************************************************)
EXTENDS Naturals, Sequences

CONSTANT EOL              \* the byte that ends a line

VARIABLES contents,       \* the bytes that can be read
          got,            \* what the last call took out
          call            \* the last call: its name, its data, its length

queueVars == <<contents, got, call>>

QueueInit == contents = << >> /\ got = << >> /\ call.op = "none"

First(n) == SubSeq(contents, 1, n)
Rest(n) == SubSeq(contents, n + 1, Len(contents))

QueueAppend == /\ call'.op \in {"append", "readFd"}
           /\ contents' = contents \o call'.data
           /\ got' = << >>

QueuePrepend == /\ call'.op = "prepend"
            /\ contents' = call'.data \o contents
            /\ got' = << >>

QueueRetrieve == /\ call'.op = "retrieve"
             /\ contents' = Rest(call'.len)
             /\ got' = First(call'.len)

QueueUnwrite == /\ call'.op = "unwrite"
            /\ contents' = First(Len(contents) - call'.len)
            /\ got' = << >>

(* The first line with its end, or nothing if no line is complete.         *)
QueueTakeLine == /\ call'.op = "line"
             /\ \E n \in 0 .. Len(contents) :
                  /\ \A i \in 1 .. Len(contents) :
                        contents[i] = EOL => n \in 1 .. i
                  /\ n > 0 => contents[n] = EOL
                  /\ contents' = Rest(n)
                  /\ got' = First(n)

QueueShrink == /\ call'.op = "shrink"
           /\ UNCHANGED contents
           /\ got' = << >>

QueueNext == \/ QueueAppend \/ QueuePrepend \/ QueueRetrieve \/ QueueUnwrite \/ QueueTakeLine
             \/ QueueShrink

QueueSpec == QueueInit /\ [][QueueNext]_queueVars
=============================================================================
