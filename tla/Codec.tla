-------------------------------- MODULE Codec --------------------------------
(***************************************************************************)
(* The codec the *_gen.go files are instances of: what their five methods  *)
(* (DecodeMsg, EncodeMsg, MarshalMsg, UnmarshalMsg, Msgsize) do with each  *)
(* kind of Go type, and the types of the program they are generated for.   *)
(* A message is a sequence of tokens, the objects of the wire format with  *)
(* their payloads; a type is a term made by the operators below. Byte      *)
(* strings are abstracted to a name and a length, unsigned numbers to a    *)
(* name and the width of their encoding.                                   *)
(*                                                                         *)
(* Values: a pointer is <<>> or <<v>>, a struct is the tuple of its        *)
(* fields, a slice or an array is the sequence of its elements.            *)
(*                                                                         *)
(* A value is encoded, travels, and is decoded into a variable that may    *)
(* have been used before. On the way the message may be cut, or come from  *)
(* a version of the program whose type has another field or another order  *)
(* of fields.                                                              *)
(***************************************************************************)
EXTENDS Integers, Sequences, SequencesExt

Uint(w) == [k |-> "uint", n |-> w]       \* w: the size of its longest encoding
Bool == [k |-> "bool"]
Str == [k |-> "str"]
Bytes == [k |-> "bytes"]
ByteArray(n) == [k |-> "exact", n |-> n]
Ptr(T) == [k |-> "ptr", t |-> T]
Slice(T) == [k |-> "slice", t |-> T]
Array(n, T) == [k |-> "array", n |-> n, t |-> T]
Struct(f) == [k |-> "struct", f |-> f]   \* f: the pairs of a name and a type
Shim(name) == [k |-> "shim", name |-> name]   \* an interface{} made by a conversion

\* the byte-slice form of a type's codec: MarshalMsg, UnmarshalMsg and Msgsize
ByteForm(T) == [k |-> "form", t |-> T]
Form(T) == IF T.k = "form" THEN T.t ELSE T

Nil == <<"nil", <<"", 0>> >>
Result(ok, z, rest) == [ok |-> ok, z |-> z, rest |-> rest]
Failed(z) == Result(FALSE, z, <<>>)

\* the sizes of size.go
NilSize == 1
BoolSize == 1
PrefixSize == 5          \* of arrays, byte strings and strings
ByteSize == 2

\* bytes of a token on the wire
Prefix(n) == IF n <= 255 THEN 2 ELSE IF n <= 65535 THEN 3 ELSE 5
TokenLen(tok) ==
    CASE tok[1] = "nil" -> 1
      [] tok[1] = "bool" -> 1
      [] tok[1] = "uint" -> tok[2][2]
      [] tok[1] \in {"map", "arr"} -> IF tok[2][2] <= 15 THEN 1 ELSE 3
      [] tok[1] = "str" -> (IF tok[2][2] <= 31 THEN 1 ELSE 2) + tok[2][2]
      [] tok[1] = "bin" -> Prefix(tok[2][2]) + tok[2][2]

RECURSIVE SumOf(_)

\* the sum of a sequence of numbers, by halves
SumOf(s) ==
    IF Len(s) <= 1 THEN IF s = <<>> THEN 0 ELSE s[1]
    ELSE LET mid == Len(s) \div 2 IN SumOf(SubSeq(s, 1, mid)) + SumOf(SubSeq(s, mid + 1, Len(s)))

WireLen(msg) == SumOf([i \in DOMAIN msg |-> TokenLen(msg[i])])

Key(name) == <<"str", <<name, Len(name)>> >>
Lead(kind, n) == <<kind, <<"", n>> >>

-----------------------------------------------------------------------------
(* Trie nodes and the shims *)

NodeIntf == Shim("node")
FullNode == Struct(<< <<"Children", Array(17, NodeIntf)>> >>)
ShortNode == Struct(<< <<"Key", Bytes>>, <<"Val", NodeIntf>> >>)
HashNode == Bytes
ValueNode == Bytes
NodeType(prefix) == CASE prefix = "F" -> FullNode [] prefix = "S" -> ShortNode
                      [] prefix = "H" -> HashNode [] prefix = "V" -> ValueNode

\* the sign byte and the absolute value
bigToBytes(v) == LET mag == IF v < 0 THEN -v ELSE v
                     sign == IF v < 0 THEN 255 ELSE IF v = 0 THEN 0 ELSE 1
                 IN  << <<sign, mag>>, 1 + (IF mag = 0 THEN 0 ELSE IF mag <= 255 THEN 1 ELSE 2)>>

\* the sign is forgotten
bigFromBytesUnsigned(b) == b[1][2]

bigFromBytes(b) == IF b[1][1] = 255 THEN -b[1][2] ELSE b[1][2]

\* keys are stored compact and used in hex
compactToHex(key) == IF key[1] = "compact" THEN <<"hex", key[2]>> ELSE key

RECURSIVE Encode(_, _)

\* fromNode: a letter and the node, as a byte string
fromNode(v) == LET msg == <<Key(v[1])>> \o Encode(NodeType(v[1]), v[2]) IN <<msg, WireLen(msg)>>

EncodeShim(name, v) ==
    CASE name = "big" -> <<"bin", bigToBytes(v)>>
      [] name = "nonce" -> <<"bin", v>>
      [] name = "node" -> IF v = <<>> THEN Nil ELSE <<"bin", fromNode(v)>>

-----------------------------------------------------------------------------
(* EncodeMsg and MarshalMsg *)

EncodeAll(T, v) == FlattenSeq([i \in DOMAIN v |-> Encode(T, v[i])])

Encode(T, v) ==
    CASE T.k = "uint" -> << <<"uint", v>> >>
      [] T.k = "bool" -> << <<"bool", v>> >>
      [] T.k = "str" -> << <<"str", v>> >>
      [] T.k \in {"bytes", "exact"} -> << <<"bin", v>> >>
      [] T.k = "ptr" -> IF v = <<>> THEN <<Nil>> ELSE Encode(T.t, v[1])
      [] T.k \in {"slice", "array"} -> <<Lead("arr", Len(v))>> \o EncodeAll(T.t, v)
      [] T.k = "struct" -> <<Lead("map", Len(T.f))>>
                           \o FlattenSeq([i \in DOMAIN T.f |-> <<Key(T.f[i][1])>> \o Encode(T.f[i][2], v[i])])
      [] T.k = "shim" -> <<EncodeShim(T.name, v)>>

\* MarshalMsg appends to what is there
Marshal(T, b, v) == b \o Encode(Form(T), v)

RECURSIVE Msgsize(_, _)

SizeAll(T, v) == SumOf([i \in DOMAIN v |-> Msgsize(T, v[i])])

\* the generated bound; for a conversion that may fail it is that of a nil interface
Msgsize(T, v) ==
    CASE T.k = "uint" -> T.n
      [] T.k = "bool" -> BoolSize
      [] T.k \in {"str", "bytes"} -> PrefixSize + v[2]
      [] T.k = "exact" -> PrefixSize + T.n * ByteSize
      [] T.k = "ptr" -> IF v = <<>> THEN NilSize ELSE Msgsize(T.t, v[1])
      [] T.k \in {"slice", "array"} -> PrefixSize + SizeAll(T.t, v)
      [] T.k = "struct" -> 1 + SumOf([i \in DOMAIN T.f |-> 1 + Len(T.f[i][1]) + Msgsize(T.f[i][2], v[i])])
      [] T.k = "shim" -> IF T.name = "big" THEN PrefixSize + bigToBytes(v)[2] ELSE NilSize

-----------------------------------------------------------------------------
(* DecodeMsg and UnmarshalMsg *)

RECURSIVE Zero(_)

Zero(T) ==
    CASE T.k = "uint" -> <<"zero", 1>>
      [] T.k = "bool" -> FALSE
      [] T.k \in {"str", "bytes"} -> <<"", 0>>
      [] T.k = "exact" -> <<"zero", T.n>>
      [] T.k \in {"ptr", "slice"} -> <<>>
      [] T.k = "array" -> [i \in 1..T.n |-> Zero(T.t)]
      [] T.k = "struct" -> [i \in DOMAIN T.f |-> Zero(T.f[i][2])]
      [] T.k = "shim" -> CASE T.name = "big" -> 0 [] T.name = "nonce" -> <<"zero", 8>> [] T.name = "node" -> <<>>

RECURSIVE Skip(_, _)

\* what is left after n objects; a message that ends early is an error
Skip(n, in) ==
    IF n = 0 THEN Result(TRUE, <<>>, in)
    ELSE IF in = <<>> THEN Failed(<<>>)
    ELSE LET tok == in[1]
         IN  Skip(n - 1 + (CASE tok[1] = "map" -> 2 * tok[2][2] [] tok[1] = "arr" -> tok[2][2] [] OTHER -> 0), Tail(in))

RECURSIVE Decode(_, _, _)
RECURSIVE DecodeAll(_, _, _, _)
RECURSIVE DecodeFields(_, _, _, _)

\* the elements from i on, into the ones that are there
DecodeAll(T, i, z, in) ==
    IF i > Len(z) THEN Result(TRUE, z, in)
    ELSE LET r == Decode(T, z[i], in)
         IN  IF r.ok THEN DecodeAll(T, i + 1, [z EXCEPT ![i] = r.z], r.rest) ELSE Failed([z EXCEPT ![i] = r.z])

\* n more pairs; a field that is not known is skipped
DecodeFields(f, n, z, in) ==
    IF n = 0 THEN Result(TRUE, z, in)
    ELSE IF in = <<>> \/ in[1][1] # "str" THEN Failed(z)
    ELSE LET is == {i \in DOMAIN f : f[i][1] = in[1][2][1]}
             i == CHOOSE i \in is : TRUE
             r == IF is = {} THEN Skip(1, Tail(in)) ELSE Decode(f[i][2], z[i], Tail(in))
             new == IF is = {} THEN z ELSE [z EXCEPT ![i] = r.z]
         IN  IF r.ok THEN DecodeFields(f, n - 1, new, r.rest) ELSE Failed(new)

\* toNode: an unknown letter is an error, an empty value is no node
toNode(b, old) ==
    LET msg == b[1]
        r == Decode(NodeType(msg[1][2][1]), Zero(NodeType(msg[1][2][1])), Tail(msg))
    IN  IF msg = <<>> \/ msg[1][1] # "str" THEN Result(FALSE, old, <<>>)
        ELSE IF ~r.ok THEN Result(FALSE, old, <<>>)
        ELSE Result(TRUE,
               CASE msg[1][2][1] = "S" -> <<"S", [r.z EXCEPT ![1] = compactToHex(@)]>>
                 [] msg[1][2][1] = "V" -> IF r.z[2] = 0 THEN <<>> ELSE <<"V", r.z>>
                 [] OTHER -> <<msg[1][2][1], r.z>>, <<>>)

\* what is not a byte string is no number, no nonce and no node
DecodeShim(name, z, tok) ==
    CASE name = "big" -> Result(TRUE, IF tok[1] = "bin" THEN bigFromBytes(tok[2]) ELSE 0, <<>>)
      [] name = "nonce" -> IF tok[1] = "bin" /\ tok[2][2] = 8 THEN Result(TRUE, tok[2], <<>>) ELSE Failed(z)
      [] name = "node" -> CASE tok[1] = "nil" -> Result(TRUE, <<>>, <<>>)
                            [] tok[1] = "bin" -> toNode(tok[2], z)
                            [] OTHER -> Failed(z)

\* an object of type T into z: arrays must have their length, numbers must fit
Decode(T, z, in) ==
    IF in = <<>> THEN Failed(z)
    ELSE LET tok == in[1]
             rest == Tail(in)
             scalar(kind, fits) == IF tok[1] = kind /\ fits THEN Result(TRUE, tok[2], rest) ELSE Failed(z)
         IN  CASE T.k = "uint" -> scalar("uint", tok[2][2] <= T.n)
               [] T.k = "bool" -> scalar("bool", TRUE)
               [] T.k = "str" -> scalar("str", TRUE)
               [] T.k = "bytes" -> scalar("bin", TRUE)
               [] T.k = "exact" -> scalar("bin", tok[2][2] = T.n)
               [] T.k = "ptr" -> IF tok[1] = "nil" THEN Result(TRUE, <<>>, rest)
                                 ELSE LET r == Decode(T.t, IF z = <<>> THEN Zero(T.t) ELSE z[1], in)
                                      IN  Result(r.ok, <<r.z>>, r.rest)
               [] T.k = "slice" -> IF tok[1] # "arr" THEN Failed(z)
                                   ELSE DecodeAll(T.t, 1, [i \in 1..tok[2][2] |-> IF i <= Len(z) THEN z[i] ELSE Zero(T.t)], rest)
               [] T.k = "array" -> IF tok[1] # "arr" \/ tok[2][2] # T.n THEN Failed(z)
                                   ELSE DecodeAll(T.t, 1, z, rest)
               [] T.k = "struct" -> IF tok[1] # "map" THEN Failed(z) ELSE DecodeFields(T.f, tok[2][2], z, rest)
               [] T.k = "shim" -> LET r == DecodeShim(T.name, z, tok) IN Result(r.ok, r.z, rest)

\* what an encoded value is decoded to: the keys of trie nodes are in hex
RECURSIVE Decoded(_, _)
Decoded(T, v) ==
    CASE T.k = "ptr" -> IF v = <<>> THEN v ELSE <<Decoded(T.t, v[1])>>
      [] T.k \in {"slice", "array"} -> [i \in DOMAIN v |-> Decoded(T.t, v[i])]
      [] T.k = "struct" -> [i \in DOMAIN v |-> Decoded(T.f[i][2], v[i])]
      [] T.k = "shim" -> IF T.name # "node" \/ v = <<>> THEN v
                         ELSE LET x == Decoded(NodeType(v[1]), v[2])
                              IN  CASE v[1] = "S" -> <<"S", [x EXCEPT ![1] = compactToHex(@)]>>
                                    [] v[1] = "V" -> IF v[2][2] = 0 THEN <<>> ELSE v
                                    [] OTHER -> <<v[1], x>>
      [] OTHER -> v

-----------------------------------------------------------------------------
(* The stored and hashed types of the chain (the *_gen.go files of         *)
(* common/types, core/blockchain, core/transaction, core/state and trie).  *)
(* A type stands for its stream methods, DecodeMsg and EncodeMsg; the      *)
(* definition ending in Bytes stands for MarshalMsg, UnmarshalMsg and      *)
(* Msgsize (small types have one definition for all).                      *)

Hash == ByteArray(32)
Address == ByteArray(20)
Bloom == ByteArray(256)
BigInt == Struct(<< <<"bigint", Shim("big")>> >>)
Hashs == Struct(<< <<"Hashs", Slice(Ptr(Hash))>> >>)
HashsBytes == ByteForm(Hashs)

Code == Bytes
Account == Struct(<< <<"Nonce", Uint(9)>>, <<"Balance", Ptr(BigInt)>>, <<"Root", Hash>>, <<"CodeHash", Bytes>> >>)
AccountBytes == ByteForm(Account)

FullNodeBytes == ByteForm(FullNode)

Txdata == Struct(<< <<"AccountNonce", Uint(9)>>, <<"Recipient", Ptr(Address)>>, <<"Amount", Ptr(BigInt)>>,
    <<"Payload", Bytes>>, <<"V", Ptr(BigInt)>>, <<"R", Ptr(BigInt)>>, <<"S", Ptr(BigInt)>>, <<"Hash", Ptr(Hash)>> >>)
TxdataBytes == ByteForm(Txdata)
Transaction == Struct(<< <<"Data", Txdata>> >>)
Transactions == Slice(Ptr(Transaction))
TransactionsBytes == ByteForm(Transactions)
TxByNonce == Slice(Ptr(Transaction))
TxByNonceBytes == ByteForm(TxByNonce)

Log == Struct(<< <<"Address", Address>>, <<"Topics", Slice(Hash)>>, <<"Data", Bytes>>, <<"BlockNumber", Uint(9)>>,
    <<"TxHash", Hash>>, <<"TxIndex", Uint(9)>>, <<"BlockHash", Hash>>, <<"Index", Uint(9)>>, <<"Removed", Bool>> >>)
LogBytes == ByteForm(Log)
LogForStorage == Log
LogForStorageBytes == ByteForm(LogForStorage)

Receipt == Struct(<< <<"PostState", Bytes>>, <<"Status", Uint(9)>>, <<"Bloom", Bloom>>, <<"Logs", Slice(Ptr(Log))>>,
    <<"TxHash", Hash>>, <<"ContractAddress", Address>> >>)
ReceiptBytes == ByteForm(Receipt)
ReceiptForStorage == Receipt
ReceiptForStorageBytes == ByteForm(ReceiptForStorage)
ReceiptMsgp == Struct(<< <<"PostStateOrStatus", Bytes>>, <<"Bloom", Bloom>>, <<"Logs", Slice(Ptr(Log))>> >>)
ReceiptMsgpBytes == ByteForm(ReceiptMsgp)
Receipts == Slice(Ptr(Receipt))
Receipts_s == Struct(<< <<"Receipts_s", Slice(Receipts)>> >>)
Receipts_sBytes == ByteForm(Receipts_s)

TxLookupEntry == Struct(<< <<"BlockHash", Hash>>, <<"BlockIndex", Uint(9)>>, <<"Index", Uint(9)>> >>)
Meta == TxLookupEntry

BlockNonce == Shim("nonce")
HeaderFields == << <<"ParentHash", Hash>>, <<"Coinbase", Address>>, <<"StateHash", Hash>>, <<"TxHash", Hash>>,
    <<"ReceiptHash", Hash>>, <<"Bloom", Bloom>>, <<"Number", Ptr(BigInt)>>, <<"Time", Ptr(BigInt)>>, <<"Extra", Bytes>> >>
HeaderNoNonce == Struct(HeaderFields)
HeaderNoNonceBytes == ByteForm(HeaderNoNonce)
Header == Struct(HeaderFields \o << <<"MixHash", Hash>>, <<"Nonce", BlockNonce>> >>)
HeaderBytes == ByteForm(Header)
Headers == Struct(<< <<"Headers", Slice(Ptr(Header))>> >>)
HeadersBytes == ByteForm(Headers)
Body == Struct(<< <<"Transactions", Slice(Ptr(Transaction))>> >>)
BodyBytes == ByteForm(Body)
Block == Struct(<< <<"B_header", Ptr(Header)>>, <<"B_body", Body>> >>)
BlockBytes == ByteForm(Block)
Blocks == Slice(Ptr(Block))
BlocksBytes == ByteForm(Blocks)

-----------------------------------------------------------------------------
(* The messages of the protocols (the *_gen.go files of communication/p2p, *)
(* p2p/discover, p2p/discv5 and node/services/mjoy). The types of discv5   *)
(* that have the name of one of discover end in 5.                         *)

\* mjoy
BlockBodiesData == Struct(<< <<"Bodys", Slice(Ptr(Body))>> >>)
BlockBodiesDataBytes == ByteForm(BlockBodiesData)
HashOrNumber == Struct(<< <<"Hash", Hash>>, <<"Number", Uint(9)>> >>)
GetBlockHeadersData == Struct(<< <<"Origin", HashOrNumber>>, <<"Amount", Uint(9)>>, <<"Skip", Uint(9)>>, <<"Reverse", Bool>> >>)
GetBlockHeadersDataBytes == ByteForm(GetBlockHeadersData)
NewBlockData == Struct(<< <<"Block", Ptr(Block)>>, <<"Number", Ptr(BigInt)>> >>)
NewBlockDataBytes == ByteForm(NewBlockData)
NewBlockHashesData == Slice(HashOrNumber)
NewBlockHashesDataBytes == ByteForm(NewBlockHashesData)
NodeData == Struct(<< <<"Nodes", Slice(Bytes)>> >>)
StatusData == Struct(<< <<"ProtocolVersion", Uint(5)>>, <<"NetworkId", Uint(9)>>, <<"Number", Ptr(BigInt)>>,
    <<"CurrentBlock", Hash>>, <<"GenesisBlock", Hash>> >>)
StatusDataBytes == ByteForm(StatusData)

\* p2p
AuthMsgV4 == Struct(<< <<"Signature", ByteArray(65)>>, <<"InitiatorPubkey", ByteArray(64)>>, <<"Nonce", ByteArray(32)>>,
    <<"Version", Uint(9)>> >>)
AuthRespV4 == Struct(<< <<"RandomPubkey", ByteArray(64)>>, <<"Nonce", ByteArray(32)>>, <<"Version", Uint(9)>> >>)
DiscReason == Uint(9)
Cap == Struct(<< <<"Name", Str>>, <<"Version", Uint(9)>> >>)
Protocol == Struct(<< <<"Name", Str>>, <<"Version", Uint(9)>>, <<"Length", Uint(9)>> >>)
NodeID == ByteArray(64)
ProtoHandshake == Struct(<< <<"Version", Uint(9)>>, <<"Name", Str>>, <<"Caps", Slice(Cap)>>, <<"ListenPort", Uint(9)>>,
    <<"ID", NodeID>> >>)
ProtoHandshakeBytes == ByteForm(ProtoHandshake)

\* discover
IP == Struct(<< <<"ip", Bytes>> >>)
Node == Struct(<< <<"IP", IP>>, <<"UDP", Uint(3)>>, <<"TCP", Uint(3)>>, <<"ID", NodeID>> >>)
RpcEndpoint == Struct(<< <<"IP", IP>>, <<"UDP", Uint(3)>>, <<"TCP", Uint(3)>> >>)
RpcNode == Node
Findnode == Struct(<< <<"Target", NodeID>>, <<"Expiration", Uint(9)>>, <<"Rest", Bytes>> >>)
Neighbors == Struct(<< <<"Nodes", Slice(RpcNode)>>, <<"Expiration", Uint(9)>>, <<"Rest", Bytes>> >>)
NeighborsBytes == ByteForm(Neighbors)
Ping == Struct(<< <<"Version", Uint(9)>>, <<"From", RpcEndpoint>>, <<"To", RpcEndpoint>>, <<"Expiration", Uint(9)>>, <<"Rest", Bytes>> >>)
PingBytes == ByteForm(Ping)
Pong == Struct(<< <<"To", RpcEndpoint>>, <<"ReplyTok", Bytes>>, <<"Expiration", Uint(9)>>, <<"Rest", Bytes>> >>)
PongBytes == ByteForm(Pong)

\* discv5
NodeID5 == ByteArray(64)
Node5 == Struct(<< <<"IP", IP>>, <<"UDP", Uint(3)>>, <<"TCP", Uint(3)>>, <<"ID", NodeID5>> >>)
RpcEndpoint5 == Struct(<< <<"IP", IP>>, <<"UDP", Uint(3)>>, <<"TCP", Uint(3)>> >>)
RpcNode5 == Node5
Topic == Str
Findnode5 == Struct(<< <<"Target", NodeID5>>, <<"Expiration", Uint(9)>>, <<"Rest", Bytes>> >>)
FindnodeHash == Struct(<< <<"Target", Hash>>, <<"Expiration", Uint(9)>>, <<"Rest", Bytes>> >>)
Neighbors5 == Struct(<< <<"Nodes", Slice(RpcNode5)>>, <<"Expiration", Uint(9)>>, <<"Rest", Bytes>> >>)
Neighbors5Bytes == ByteForm(Neighbors5)
Ping5 == Struct(<< <<"Version", Uint(9)>>, <<"From", RpcEndpoint5>>, <<"To", RpcEndpoint5>>, <<"Expiration", Uint(9)>>,
    <<"Topics", Slice(Topic)>>, <<"Rest", Bytes>> >>)
Ping5Bytes == ByteForm(Ping5)
Pong5 == Struct(<< <<"To", RpcEndpoint5>>, <<"ReplyTok", Bytes>>, <<"Expiration", Uint(9)>>, <<"TopicHash", Hash>>,
    <<"TicketSerial", Uint(5)>>, <<"WaitPeriods", Slice(Uint(5))>>, <<"Rest", Bytes>> >>)
Pong5Bytes == ByteForm(Pong5)
TopicNodes == Struct(<< <<"Echo", Hash>>, <<"Nodes", Slice(RpcNode5)>> >>)
TopicNodesBytes == ByteForm(TopicNodes)
TopicQuery == Struct(<< <<"Topic", Topic>>, <<"Expiration", Uint(9)>> >>)
TopicRegister == Struct(<< <<"Topics", Slice(Topic)>>, <<"Idx", Uint(9)>>, <<"Pong", Bytes>> >>)
TopicRegisterBytes == ByteForm(TopicRegister)

-----------------------------------------------------------------------------
(* A value that travels *)

\* the types of the program; types of the same shape are one
Types ==
    {Hash, Address, Bloom, BigInt, Hashs, HashsBytes, Code, Account, AccountBytes, NodeIntf, FullNode,
     FullNodeBytes, ShortNode, HashNode, ValueNode, Txdata, TxdataBytes, Transaction, Transactions,
     TransactionsBytes, TxByNonce, TxByNonceBytes, Log, LogBytes, LogForStorage, LogForStorageBytes, Receipt,
     ReceiptBytes, ReceiptForStorage, ReceiptForStorageBytes, ReceiptMsgp, ReceiptMsgpBytes, Receipts,
     Receipts_s, Receipts_sBytes, TxLookupEntry, Meta, BlockNonce, HeaderNoNonce, HeaderNoNonceBytes, Header,
     HeaderBytes, Headers, HeadersBytes, Body, BodyBytes, Block, BlockBytes, Blocks, BlocksBytes,
     BlockBodiesData, BlockBodiesDataBytes, HashOrNumber, GetBlockHeadersData, GetBlockHeadersDataBytes,
     NewBlockData, NewBlockDataBytes, NewBlockHashesData, NewBlockHashesDataBytes, NodeData, StatusData,
     StatusDataBytes, AuthMsgV4, AuthRespV4, DiscReason, Cap, Protocol, NodeID, ProtoHandshake,
     ProtoHandshakeBytes, IP, Node, RpcEndpoint, RpcNode, Findnode, Neighbors, NeighborsBytes, Ping, PingBytes,
     Pong, PongBytes, NodeID5, Node5, RpcEndpoint5, RpcNode5, Topic, Findnode5, FindnodeHash, Neighbors5,
     Neighbors5Bytes, Ping5, Ping5Bytes, Pong5, Pong5Bytes, TopicNodes, TopicNodesBytes, TopicQuery,
     TopicRegister, TopicRegisterBytes}

RECURSIVE Full(_)

\* a value without zeros
Full(X) ==
    CASE X.k = "uint" -> <<"max", X.n>>
      [] X.k = "bool" -> TRUE
      [] X.k \in {"str", "bytes"} -> <<"x", 3>>
      [] X.k = "exact" -> <<"x", X.n>>
      [] X.k = "ptr" -> <<Full(X.t)>>
      [] X.k = "slice" -> <<Full(X.t), Full(X.t)>>
      [] X.k = "array" -> [i \in 1..X.n |-> Full(X.t)]
      [] X.k = "struct" -> [i \in DOMAIN X.f |-> Full(X.f[i][2])]
      [] X.k = "shim" -> CASE X.name = "big" -> 7 [] X.name = "nonce" -> <<"x", 8>> [] X.name = "node" -> <<"H", <<"x", 32>> >>

RECURSIVE Samples(_)

\* every value of a part, with the others full; trie nodes one level deep
Samples(X) ==
    CASE X.k = "uint" -> {<<"zero", 1>>, <<"max", X.n>>}
      [] X.k = "bool" -> BOOLEAN
      [] X.k \in {"str", "bytes"} -> {<<"", 0>>, <<"x", 3>>, <<"y", 300>>}
      [] X.k = "exact" -> {<<"zero", X.n>>, <<"x", X.n>>}
      [] X.k = "ptr" -> {<<>>} \cup {<<v>> : v \in Samples(X.t)}
      [] X.k = "slice" -> {<<>>} \cup {<<v>> : v \in Samples(X.t)} \cup {<<Full(X.t), v>> : v \in Samples(X.t)}
      [] X.k = "array" -> {[Full(X) EXCEPT ![i] = v] : i \in {1, X.n}, v \in Samples(X.t)}
      [] X.k = "struct" -> {Zero(X)} \cup UNION {{[Full(X) EXCEPT ![i] = v] : v \in Samples(X.f[i][2])} : i \in DOMAIN X.f}
      [] X.k = "shim" ->
            CASE X.name = "big" -> {-300, -1, 0, 255}
              [] X.name = "nonce" -> {<<"zero", 8>>, <<"x", 8>>}
              [] X.name = "node" -> {<<>>, <<"H", <<"x", 32>> >>, <<"V", <<"x", 3>> >>, <<"V", <<"", 0>> >>,
                                     <<"S", << <<"compact", 2>>, <<"H", <<"y", 32>> >> >> >>,
                                     <<"F", [Full(FullNode) EXCEPT ![1] = [@ EXCEPT ![2] = <<>>]]>>}

VARIABLES
    type,         \* the type
    value,        \* the value that is encoded
    target,       \* the variable it is decoded into
    msg,          \* the message
    ok,           \* the decoder returned no error
    rest,         \* what it left of the message
    way           \* what has happened to the message, and whether it is decoded

vars == <<type, value, target, msg, ok, rest, way>>

Init ==
    /\ type \in Types
    /\ value \in Samples(Form(type)) /\ target \in {Zero(Form(type)), Full(Form(type))}
    /\ msg = <<>> /\ ok = FALSE /\ rest = <<>> /\ way = "new"

Write ==
    /\ way = "new" /\ way' = "whole" /\ msg' = Marshal(type, <<>>, value)
    /\ UNCHANGED <<type, value, target, ok, rest>>

\* only a prefix has been stored or received
CutOff ==
    /\ way = "whole" /\ way' = "cut"
    /\ \E n \in {Len(msg) \div 2, Len(msg) - 1} : n < Len(msg) /\ msg' = SubSeq(msg, 1, n)
    /\ UNCHANGED <<type, value, target, ok, rest>>

\* a struct with a field more, in front of the others
OtherVersion ==
    /\ way = "whole" /\ Form(type).k = "struct" /\ way' = "other"
    /\ LET new == <<Lead("arr", 2), Nil, Lead("map", 1), Key("a"), Nil>>
       IN  msg' = <<Lead("map", Len(Form(type).f) + 1), Key("unknown")>> \o new \o Tail(msg)
    /\ UNCHANGED <<type, value, target, ok, rest>>

\* more data follows
Followed ==
    /\ way = "whole" /\ way' = "followed" /\ msg' = msg \o <<Nil>>
    /\ UNCHANGED <<type, value, target, ok, rest>>

Read ==
    /\ way \in {"whole", "cut", "other", "followed"}
    /\ LET r == Decode(Form(type), target, msg)
       IN  target' = r.z /\ ok' = r.ok /\ rest' = r.rest
    /\ way' = IF way = "cut" THEN "readcut" ELSE IF way = "followed" THEN "readfollowed" ELSE "read"
    /\ UNCHANGED <<type, value, msg>>

Done == way \in {"read", "readcut", "readfollowed"} /\ UNCHANGED vars

Next == Write \/ CutOff \/ OtherVersion \/ Followed \/ Read \/ Done

Spec == Init /\ [][Next]_vars

-----------------------------------------------------------------------------
(* Properties *)

(* What is encoded is decoded to the same value, whatever the variable     *)
(* held before, by both forms of the codec, and the decoder takes exactly  *)
(* the message; unknown fields are passed over.                            *)
RoundTrip ==
    way \in {"read", "readfollowed"} =>
        /\ ok /\ target = Decoded(Form(type), value)
        /\ rest = IF way = "readfollowed" THEN <<Nil>> ELSE <<>>

(* A message that is cut short is an error, never a shorter value. *)
CutIsError == way = "readcut" => ~ok

(* "Msgsize returns an upper bound estimate of the number of bytes         *)
(* occupied by the serialized message", with the exception of the types    *)
(* whose conversion may fail: for those the generated bound is that of nil.*)
Guessed == {BlockNonce, NodeIntf, ShortNode, FullNode, FullNodeBytes}
SizeBound == way = "whole" /\ type \notin Guessed => WireLen(msg) <= Msgsize(Form(type), value)

CodecSound == RoundTrip /\ CutIsError /\ SizeBound
=============================================================================
