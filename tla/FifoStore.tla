----------------------------- MODULE FifoStore -----------------------------
(***************************************************************************)
(* What a circular storage backend promises, without files, tables and     *)
(* locks: a log of copies of blobs.  Copies get positions in the order in  *)
(* which their uploads begin and are given up in that order, to make room  *)
(* for an upload or with a copy that turned out to be bad.  Only a         *)
(* complete upload of the right data leaves a copy, only copies are found, *)
(* and copies survive a restart.  A lookup may miss a copy that is there.  *)
(***************************************************************************)
EXTENDS Integers

CONSTANTS
    Digests,
    Putters, Getters,  \* calls of Put and Get
    Positions,         \* positions in the log
    Space,             \* digest -> positions that a copy of a blob takes
    Capacity,          \* positions that copies and uploads may take together
    Slack              \* how much more room may be made than is needed

VARIABLES
    copies,   \* pairs of a digest and a position
    horizon,  \* what has a position before it is given up
    upload,   \* call of Put -> the blob it uploads, where to, and if it is the right data
    download  \* call of Get -> the copy it found

fifoVars == <<copies, horizon, upload, download>>

NoCall == [kind |-> "none"]
Upload == [kind : {"put"}, digest : Digests, position : Positions, good : BOOLEAN]
Download(d, position) == [kind |-> "get", digest |-> d, position |-> position]

FifoInit ==
    /\ copies = {} /\ horizon = 0
    /\ upload = [p \in Putters |-> NoCall]
    /\ download = [g \in Getters |-> NoCall]

\* Everything that has a position before the new horizon is given up, and
\* nothing else.
GiveUpOldest == copies' = {c \in copies : c[2] >= horizon'}

\* The position is after those of all copies and uploads.
IsFree(position) ==
    /\ horizon <= position
    /\ \A c \in copies : c[2] + Space[c[1]] <= position
    /\ \A p \in Putters : upload[p] # NoCall => upload[p].position + Space[upload[p].digest] <= position

\* Room is made only if it is needed, and then there is room.
BeginUpload(p) ==
    LET new == upload'[p]
        end == new.position + Space[new.digest]
    IN  /\ upload[p] = NoCall /\ new \in Upload
        /\ upload' = [upload EXCEPT ![p] = new]
        /\ IsFree(new.position)
        /\ horizon' = horizon \/ (horizon' > horizon /\ horizon' + Capacity < end + Slack)
        /\ end <= horizon' + Capacity
        /\ GiveUpOldest
        /\ UNCHANGED download

\* An upload of the right data ends, and leaves a copy unless it took too long.
Publish(p) ==
    /\ upload[p] # NoCall /\ upload[p].good
    /\ copies' = IF upload[p].position < horizon THEN copies
                 ELSE copies \cup {<<upload[p].digest, upload[p].position>>}
    /\ upload' = [upload EXCEPT ![p] = NoCall]
    /\ UNCHANGED <<horizon, download>>

Abandon(p) ==
    /\ upload[p] # NoCall
    /\ upload' = [upload EXCEPT ![p] = NoCall]
    /\ UNCHANGED <<copies, horizon, download>>

Find(g, c) ==
    /\ download[g] = NoCall
    /\ download' = [download EXCEPT ![g] = Download(c[1], c[2])]
    /\ UNCHANGED <<copies, horizon, upload>>

EndDownload(g) ==
    /\ download[g] # NoCall
    /\ download' = [download EXCEPT ![g] = NoCall]
    /\ UNCHANGED <<copies, horizon, upload>>

\* The data was bad: a copy of the blob is given up, and older ones with it.
Discard(g, c) ==
    /\ download[g] # NoCall /\ download[g].digest = c[1]
    /\ download' = [download EXCEPT ![g] = NoCall]
    /\ horizon' = c[2] + Space[c[1]] /\ GiveUpOldest
    /\ UNCHANGED upload

Crash ==
    /\ upload' = [p \in Putters |-> NoCall]
    /\ download' = [g \in Getters |-> NoCall]
    /\ UNCHANGED <<copies, horizon>>

FifoNext ==
    \/ \E p \in Putters : BeginUpload(p) \/ Publish(p) \/ Abandon(p)
    \/ \E g \in Getters : EndDownload(g) \/ \E c \in copies : Find(g, c) \/ Discard(g, c)
    \/ Crash

FifoSpec == FifoInit /\ [][FifoNext]_fifoVars
===========================================================================
