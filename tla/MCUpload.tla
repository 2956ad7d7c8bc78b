------------------------------ MODULE MCUpload ------------------------------
(***************************************************************************)
(* Instances of Upload for TLC: which uploads the clients of the account   *)
(* may send in each run.  The counters and declarations below are the only *)
(* bounds: a stream cannot grow past the highest counter some upload has.  *)
(***************************************************************************)
EXTENDS UploadClients, TLC

CONSTANTS a, b, c, e,   \* devices; no upload is of e
          p, q,         \* payloads
          x, y          \* blobs

RequestSymmetry == Permutations(Request)

NoCovers == [d \in Device |-> 0]
CoverAB(m, n) == [d \in Device |-> CASE d = a -> m [] d = b -> n [] OTHER -> 0]

Packet(d, n, body, ids) ==
  [origin |-> d, counter |-> n, payload |-> body, snapshot |-> FALSE,
   covers |-> NoCovers, blobs |-> ids]

Snapshot(d, n, body, covers, ids) ==
  [origin |-> d, counter |-> n, payload |-> body, snapshot |-> TRUE,
   covers |-> covers, blobs |-> ids]

OneByte == [z \in Payload \cup Blob |-> 1]

(* Streams under arbitrary declarations: a fork of slot a1, a snapshot that *)
(* covers itself and its future, and two snapshots that cover each other.   *)
StreamUploads ==
  {Packet(a, 1, p, {}), Packet(a, 1, q, {}), Packet(b, 1, p, {}),
   Snapshot(a, 2, q, CoverAB(9, 1), {}), Snapshot(b, 2, q, CoverAB(2, 2), {})}

(* Blobs: packets that declare them, a carrier's copy of a snapshot that    *)
(* declares neither coverage nor blob, and the snapshot itself.             *)
BlobUploads ==
  {Packet(a, 1, p, {x}), Packet(b, 1, p, {x, y}), Packet(a, 2, q, {}),
   Snapshot(a, 2, q, CoverAB(1, 1), {x})}

(* Honest clients: one body per slot; a snapshot's coverage names itself and *)
(* contains that of every snapshot it covers; a carrier's copy of a snapshot *)
(* is the same body without the declaration.                                 *)
HonestUploads ==
  {Packet(a, 1, p, {}), Packet(b, 1, p, {}),
   Snapshot(a, 2, q, CoverAB(2, 1), {}), Packet(a, 2, q, {}),
   Snapshot(b, 2, q, CoverAB(1, 2), {}),
   Snapshot(b, 3, q, CoverAB(2, 3), {})}

CoverE == [d \in Device |-> IF d = e THEN 1 ELSE 0]

(* Limits: packets of three streams, nothing that frees space: the one     *)
(* snapshot declares a device the relay has no packet of, which is credited *)
(* nothing.                                                                 *)
LimitUploads ==
  {Packet(a, 1, p, {}), Packet(a, 2, p, {}), Packet(a, 3, p, {}),
   Packet(b, 1, p, {}), Snapshot(c, 1, p, CoverE, {})}

(* Retries: two packets with a blob, a snapshot that covers one of them,    *)
(* and two that cover both and the snapshots before them; each is admitted  *)
(* to a full account for what it covers.                                    *)
RetryUploads ==
  {Packet(a, 1, p, {x}), Packet(b, 1, p, {x}),
   Snapshot(a, 2, q, CoverAB(1, 0), {}), Snapshot(b, 2, q, CoverAB(2, 1), {}),
   Snapshot(b, 3, q, CoverAB(2, 2), {})}

QBigger == [z \in Payload \cup Blob |-> IF z = q THEN 2 ELSE 1]

ASSUME HonestUploadsAssumption == Honest(HonestUploads)
=============================================================================
