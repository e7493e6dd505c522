------------------------------ MODULE Archiver ------------------------------
(***************************************************************************)
(* The block archiver (src/archiver/archiver.go): pushed txns and         *)
(* settings wait in a bolt bucket under the zero block hash; Rotate moves *)
(* them into a block named by the hash of their contents, links it to the *)
(* last block, uploads the archive and then stores the block's metadata.  *)
(* New runs recover, which refuses to start on a block that is not        *)
(* uploaded.                                                               *)
(*                                                                         *)
(* The bolt buckets are durable and every db.Update is atomic; the rest   *)
(* (a rotation between its stages, whether the Start loop still runs) is  *)
(* lost on a crash. An item is a txn or settings key (dir, account, id);  *)
(* its value, the JSON of the txn or settings, is a version number. A     *)
(* block hash (SHA-256 over the values in key order) is the function from *)
(* the items to the values it covers, and ZeroBlockHash is Zero.          *)
(* blockSize and rotateC only decide when the Start loop rotates; the     *)
(* ticker may fire at any time, so they are left out.                     *)
(***************************************************************************)
EXTENDS Integers, Sequences, SequencesExt, FiniteSets

CONSTANTS
    Items,              \* txn and settings keys
    Versions,           \* the values an item may be pushed with
    Rotators,           \* who calls Rotate: the Start loop, the /rotate handler
    Loop,               \* the Start loop among the Rotators
    Zero,               \* ZeroBlockHash
    MinioSet,           \* whether SetMinio configures an upload target
    MaxPushes,          \* bound on Push / PushSettings calls
    MaxUploadFailures,  \* bound on failed uploads
    MaxCrashes,         \* bound on crashes
    Repush              \* TRUE: a push may repeat a value already pushed

VARIABLES
    tb,        \* the txns bucket: <<block hash, item>> -> value
    blocks,    \* the blocks bucket: block hash -> [prev, status]
    last,      \* the blocks bucket's "last" key (Zero when absent)
    idx,       \* the idx bucket: item -> block hash
    minio,     \* SetMinio succeeded: uploads go to minio
    up,        \* New succeeded and the archiver serves
    looping,   \* the Start loop has not returned
    rot,       \* rot[r]: the rotation r is in, if any
    pushed,    \* the last value pushed for each item (history)
    created,   \* the block hashes in the order their first stage ran (history)
    pushes, uploadFailures, crashes

vars == <<tb, blocks, last, idx, minio, up, looping, rot, pushed, created, pushes,
          uploadFailures, crashes>>

Idle == [stage |-> "idle"]

\* An empty bucket.
None == [x \in {} |-> Zero]

Statuses == {"PREPROCESSED", "UPLOADED"}

\* The keys of items waiting for a block.
Pending == {k \in DOMAIN tb : k[1] = Zero}

\* recover: every key of the txns bucket, pending ones included (their
\* block hash is ZeroBlockHash), names a block whose metadata unmarshals
\* and is UPLOADED; a missing block is nil data, which json.Unmarshal
\* refuses.
RecoverOk(t, b) ==
    \A k \in DOMAIN t : k[1] \in DOMAIN b /\ b[k[1]].status = "UPLOADED"

\* New: the buckets are created if missing, then recover.
Init ==
    /\ tb = None /\ blocks = None /\ last = Zero /\ idx = None
    /\ minio \in MinioSet
    /\ up = RecoverOk(None, None)
    /\ looping = TRUE
    /\ rot = [r \in Rotators |-> Idle]
    /\ pushed = None /\ created = <<>>
    /\ pushes = 0 /\ uploadFailures = 0 /\ crashes = 0

-----------------------------------------------------------------------------
(* Push / PushSettings: one db.Update puts the item under the zero block  *)
(* hash, replacing a value that is still pending.                          *)

\* A new value for item i: a later version, or any when pushes repeat.
NewValue(i, v) ==
    IF Repush \/ i \notin DOMAIN pushed THEN TRUE ELSE v > pushed[i]

Push(i, v) ==
    /\ up
    /\ pushes < MaxPushes
    /\ NewValue(i, v)
    /\ tb' = (<<Zero, i>> :> v) @@ tb
    /\ pushed' = (i :> v) @@ pushed
    /\ pushes' = pushes + 1
    /\ UNCHANGED <<blocks, last, idx, minio, up, looping, rot, created,
                   uploadFailures, crashes>>

-----------------------------------------------------------------------------
(* Rotate, in its three steps: the first-stage db.Update, the upload      *)
(* outside any transaction, the last-stage db.Update. Two callers may be  *)
(* in Rotate at once: the Start loop and the /rotate handler.             *)

\* A caller that may enter Rotate: the Start loop only while it runs.
MayRotate(r) == up /\ rot[r] = Idle /\ (r = Loop => looping)

\* The block hash of the pending values: sha256 over the values alone, in
\* key order, so the hash of the same values is the same whatever block
\* came before.
BlockHashOf(content) == content

\* Variant with a bug: the idx bucket is not updated, so CheckTxn and the
\* index keep naming the item's earlier block (detected by NoItemLost).
RotateFirstNoIndex(r) ==
    /\ MayRotate(r)
    /\ Pending # {}
    /\ LET items   == {k[2] : k \in Pending}
           content == [i \in items |-> tb[<<Zero, i>>]]
           h       == BlockHashOf(content)
       IN  /\ tb' = [k \in (DOMAIN tb \ Pending) \cup {<<h, i>> : i \in items} |->
                        IF k[1] = h /\ k[2] \in items THEN content[k[2]] ELSE tb[k]]
           /\ idx' = idx
           /\ last' = h
           /\ rot' = [rot EXCEPT ![r] = [stage |-> "upload", hash |-> h, prev |-> last]]
           /\ created' = Append(created, h)
    /\ UNCHANGED <<blocks, minio, up, looping, pushed, pushes, uploadFailures, crashes>>

\* Variant with a bug: the pending key is not deleted after its value is
\* put under the new block, so it is sealed again by the next rotation
\* (detected by ArchiveRefinement).
RotateFirstKeepPending(r) ==
    /\ MayRotate(r)
    /\ Pending # {}
    /\ LET items   == {k[2] : k \in Pending}
           content == [i \in items |-> tb[<<Zero, i>>]]
           h       == BlockHashOf(content)
       IN  /\ tb' = [k \in DOMAIN tb \cup {<<h, i>> : i \in items} |->
                        IF k[1] = h /\ k[2] \in items THEN content[k[2]] ELSE tb[k]]
           /\ idx' = [i \in DOMAIN idx \cup items |-> IF i \in items THEN h ELSE idx[i]]
           /\ last' = h
           /\ rot' = [rot EXCEPT ![r] = [stage |-> "upload", hash |-> h, prev |-> last]]
           /\ created' = Append(created, h)
    /\ UNCHANGED <<blocks, minio, up, looping, pushed, pushes, uploadFailures, crashes>>

\* First stage: hash the pending values, move each under the new hash,
\* index it there and make the block "last"; the previous last (Zero when
\* absent) is the new block's PrevHash. With nothing pending Rotate
\* returns nil at once, a step that changes nothing.
RotateFirst(r) ==
    /\ MayRotate(r)
    /\ Pending # {}
    /\ LET items   == {k[2] : k \in Pending}
           content == [i \in items |-> tb[<<Zero, i>>]]
           h       == BlockHashOf(content)
       IN  /\ tb' = [k \in (DOMAIN tb \ Pending) \cup {<<h, i>> : i \in items} |->
                        IF k[1] = h /\ k[2] \in items THEN content[k[2]] ELSE tb[k]]
           /\ idx' = [i \in DOMAIN idx \cup items |-> IF i \in items THEN h ELSE idx[i]]
           /\ last' = h
           /\ rot' = [rot EXCEPT ![r] = [stage |-> "upload", hash |-> h, prev |-> last]]
           /\ created' = Append(created, h)
    /\ UNCHANGED <<blocks, minio, up, looping, pushed, pushes, uploadFailures, crashes>>

\* A Rotate caller whose error ends it: Start returns on the first error.
Failed(r) == IF r = Loop THEN FALSE ELSE looping

\* upload (uploadToMinio): without minio nothing is uploaded and the
\* status stays PREPROCESSED; else up to three PutObject tries and the
\* CopyObject to last.tar either succeed, making the block UPLOADED, or
\* Rotate returns the error and the block's metadata is never stored.
Upload(r) ==
    /\ rot[r].stage = "upload"
    /\ \/ /\ ~minio
          /\ rot' = [rot EXCEPT ![r] = [@ EXCEPT !.stage = "store"] @@ [status |-> "PREPROCESSED"]]
          /\ UNCHANGED <<looping, uploadFailures>>
       \/ /\ minio
          /\ rot' = [rot EXCEPT ![r] = [@ EXCEPT !.stage = "store"] @@ [status |-> "UPLOADED"]]
          /\ UNCHANGED <<looping, uploadFailures>>
       \/ /\ minio
          /\ uploadFailures < MaxUploadFailures
          /\ rot' = [rot EXCEPT ![r] = Idle]
          /\ looping' = Failed(r)
          /\ uploadFailures' = uploadFailures + 1
    /\ UNCHANGED <<tb, blocks, last, idx, minio, up, pushed, created, pushes, crashes>>

\* Last stage: store the block's metadata under its hash.
RotateLast(r) ==
    /\ rot[r].stage = "store"
    /\ blocks' = (rot[r].hash :> [prev |-> rot[r].prev, status |-> rot[r].status]) @@ blocks
    /\ rot' = [rot EXCEPT ![r] = Idle]
    /\ UNCHANGED <<tb, last, idx, minio, up, looping, pushed, created, pushes,
                   uploadFailures, crashes>>

-----------------------------------------------------------------------------
(* A crash loses the rotations in flight and the Start loop; the restart  *)
(* is New (recover) followed by Start.                                     *)

Restart ==
    /\ up
    /\ crashes < MaxCrashes
    /\ up' = RecoverOk(tb, blocks)
    /\ looping' = TRUE
    /\ rot' = [r \in Rotators |-> Idle]
    /\ crashes' = crashes + 1
    /\ UNCHANGED <<tb, blocks, last, idx, minio, pushed, created, pushes, uploadFailures>>

Next ==
    \/ \E i \in Items, v \in Versions : Push(i, v)
    \/ \E r \in Rotators : RotateFirst(r) \/ Upload(r) \/ RotateLast(r)
    \/ Restart

Spec == Init /\ [][Next]_vars

-----------------------------------------------------------------------------
(* Readers.                                                                *)

\* CheckTxn / CheckSettings: an item not indexed is UNPROCESSED while it
\* is pending and NOTFOUND otherwise; an indexed one reports the metadata
\* of its block, and nil metadata fails json.Unmarshal ("error").
CheckTxn(i) ==
    IF i \notin DOMAIN idx
    THEN IF <<Zero, i>> \in DOMAIN tb THEN "UNPROCESSED" ELSE "NOTFOUND"
    ELSE IF idx[i] \in DOMAIN blocks THEN blocks[idx[i]].status ELSE "error"

\* The metadata a reader unmarshals, or nil.
NoMeta == [status |-> "NOTFOUND"]

\* Block: the metadata stored under hash h, or nil.
Block(h) == IF h \in DOMAIN blocks THEN blocks[h] ELSE NoMeta

\* LastBlock: the metadata of the block "last" names, or nil.
LastBlock == Block(last)

-----------------------------------------------------------------------------
(* Properties.                                                             *)

\* Push, Rotate and a crash lose nothing: the value last pushed for an
\* item is either still pending under ZeroBlockHash, or it is what the
\* block the idx bucket names holds for it (CheckTxn then answers
\* UNPROCESSED, or with that block).
NoItemLost ==
    \A i \in DOMAIN pushed :
        IF <<Zero, i>> \in DOMAIN tb
        THEN tb[<<Zero, i>>] = pushed[i]
        ELSE /\ i \in DOMAIN idx
             /\ <<idx[i], i>> \in DOMAIN tb
             /\ tb[<<idx[i], i>>] = pushed[i]

\* The blocks form the chain TestBlockPrevHash reads through LastBlock
\* and Block: the metadata stored for the k-th block the first stage made
\* names the (k-1)-th as its PrevHash, the first one ZeroBlockHash, and
\* LastBlock is the newest block's.
BlockChainLinked ==
    /\ last = IF created = <<>> THEN Zero ELSE created[Len(created)]
    /\ LastBlock = IF created = <<>> THEN NoMeta ELSE Block(created[Len(created)])
    /\ \A k \in 1 .. Len(created) :
         Block(created[k]) # NoMeta =>
            Block(created[k]).prev = IF k = 1 THEN Zero ELSE created[k - 1]

\* A restart succeeds when every block made so far is stored and
\* UPLOADED: recover refuses only an unuploaded block (the error it
\* names), so data still waiting for its block does not stop New.
RecoverAcceptsUploaded ==
    [][(crashes' = crashes + 1 /\ \A k \in 1 .. Len(created) :
           created[k] \in DOMAIN blocks /\ blocks[created[k]].status = "UPLOADED")
       => up']_vars

\* An item pushed while the Start loop runs ends up in a block whose
\* metadata is stored, unless the loop or the archiver stops.
Archived(i) == <<Zero, i>> \notin DOMAIN tb /\ i \in DOMAIN idx /\ idx[i] \in DOMAIN blocks

ArchivedEventually ==
    \A i \in Items : (<<Zero, i>> \in DOMAIN tb) ~> (Archived(i) \/ ~looping \/ ~up)

\* Refinement: the txns bucket read as the archive. What waits is what is
\* under ZeroBlockHash; the k-th block the first stage made is what the
\* bucket holds under its hash.
BlockContent(h) == [i \in {k[2] : k \in {x \in DOMAIN tb : x[1] = h}} |-> tb[<<h, i>>]]

ArchiveAbs == INSTANCE Archive WITH waiting <- BlockContent(Zero),
                                    sealed  <- [k \in 1 .. Len(created) |-> BlockContent(created[k])]

\* The archiver implements the archive its readers see: through Push, the
\* two Rotate callers' interleaved stages, failed uploads and a crash with
\* its recover, the first stage seals exactly the values waiting, all of
\* them, as one new block after the others, leaves nothing waiting, and
\* no value of an earlier block is ever moved or rewritten.
ArchiveRefinement == ArchiveAbs!Spec

\* The ticker of Start fires every period; a goroutine inside Rotate
\* goes on to its next step.
Fairness ==
    /\ WF_vars(RotateFirst(Loop))
    /\ \A r \in Rotators : WF_vars(Upload(r)) /\ WF_vars(RotateLast(r))

LiveSpec == Spec /\ Fairness

=============================================================================
