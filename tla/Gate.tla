-------------------------------- MODULE Gate ---------------------------------
(***************************************************************************)
(* The node's request entry point (src/gate/gate.go): each handler runs   *)
(* checkRouting, decodes the protobuf request, calls the processor and    *)
(* maps the error it returns to a status code. Modelled here is           *)
(* ProcessTransfer, whose helper fields hash and settings id are filled   *)
(* in even on error.                                                       *)
(*                                                                         *)
(* A hex string on the wire is a record [len, hex, val]: its length, whether *)
(* every character is a hex digit, and the value it decodes to when its    *)
(* length is the full one. A processor result is a record [err, hash,      *)
(* settingsId, txnId], err being "none" or the name of the error kind.     *)
(***************************************************************************)
EXTENDS Chain

\* len(pt.ZeroHash) and len(pt.ZeroSign): 32-byte hashes, 72-byte signs.
HashBytes == 32
SignBytes == 72

\* Hash.String and Sign.String: hex.EncodeToString, two digits a byte.
EncodeHex(v, bytes) == [len |-> 2 * bytes, hex |-> TRUE, val |-> v]

\* The empty string, which hex.DecodeString turns into no bytes.
EmptyHex == [len |-> 0, hex |-> TRUE, val |-> ZeroHash]

\* validateHexLen: a string is empty or exactly 2 * defaultLen digits.
ValidateHexLen(s, defaultLen) ==
    ~(s.len > 2 * defaultLen) /\ ~(s.len > 0 /\ s.len < 2 * defaultLen)

\* GetHashFromString / GetSignFromString: hex.DecodeString copied into a
\* zero array, so the empty string gives the zero value.
DecodeHex(s, zero) == IF s.len = 0 THEN zero ELSE s.val

\* transferFromProto: the empty batch, the two length checks and the two
\* decodings, in this order; zeroSign is pt.ZeroSign.
TransferFromProto(req, zeroSign) ==
    IF \/ Len(req.batch) = 0
       \/ ~ValidateHexLen(req.prevHash, HashBytes)
       \/ ~ValidateHexLen(req.sign, SignBytes)
       \/ ~req.prevHash.hex
       \/ ~req.sign.hex
    THEN [ok |-> FALSE]
    ELSE [ok |-> TRUE,
          t  |-> [sender     |-> req.sender,
                  batch      |-> req.batch,
                  settingsId |-> req.settingsId,
                  prevHash   |-> DecodeHex(req.prevHash, ZeroHash),
                  sign       |-> DecodeHex(req.sign, zeroSign)]]

\* ProcessTransfer's switch on errors.Cause(err).
TransferCode(err) ==
    CASE err = "NoBalance"                            -> "NO_BALANCE"
      [] err \in {"NegativeAmount", "NoReceivers"}    -> "BAD_REQUEST"
      [] err = "InvalidPrevHash"                      -> "INVALID_PREV_HASH"
      [] err = "Loading"                              -> "RETRY"
      [] OTHER                                        -> "INTERNAL_ERROR"

\* A response that ends before the processor is called: the helper
\* fields keep their zero values, the empty string and 0.
EarlyReply(code) ==
    [code |-> code, hash |-> EmptyHex, settingsId |-> 0, txnId |-> <<>>]

\* Gate.ProcessTransfer: checkRouting (routeOk), transferFromProto (d),
\* the processor's result r on d's transfer, then hash and settings id
\* from r whatever the error, the code from the error, the txn id on
\* success.
GateProcessTransfer(routeOk, d, r) ==
    LET helpers == [hash |-> EncodeHex(r.hash, HashBytes), settingsId |-> r.settingsId]
    IN  CASE ~routeOk       -> EarlyReply("SEE_OTHER")
          [] ~d.ok          -> EarlyReply("BAD_REQUEST")
          [] r.err # "none" -> [code |-> TransferCode(r.err), txnId |-> <<>>] @@ helpers
          [] OTHER          -> [code |-> "OK", txnId |-> r.txnId] @@ helpers

=============================================================================
