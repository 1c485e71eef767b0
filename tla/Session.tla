------------------------------ MODULE Session ------------------------------
(***************************************************************************)
(* A session between a Client and a TCPConn, byte by byte: the handshake   *)
(* 'SW', server key, client key, from which both derive the key of the     *)
(* cipher, and then messages, which each side cuts out of a stream that    *)
(* arrives in pieces of any size.  Each side has one goroutine in DoRecv.  *)
(* The application may send at any time: WritePacket with SendAll and      *)
(* Broadcast write to a side whose handshake is not over, with a key that  *)
(* is still empty.  Writes do not fail, as in Server they may.             *)
(***************************************************************************)
EXTENDS Codec, KeyExchange

CONSTANTS
  Ten,          (* the base of FormatUint: 10                              *)
  SW,           (* the bytes of 'SW'                                       *)
  MsgHeartbeat, (* cmd.MsgHeartbeat                                        *)
  ClientUid,    (* the uid of the client's heartbeats                      *)
  PrivateKeys,  (* the words that KeyPair may draw                         *)
  Letters,      (* the messages that an application may send               *)
  Sends         (* bound on how many it sends; not in the code             *)

ASSUME SessionAssumption ==
  /\ Ten \in Nat \ {0, 1} /\ Ten * Ten <= Byte
  /\ Word <= Word32 * Word32
  /\ SW \in [1 .. 2 -> 0 .. Byte - 1]
  /\ 13 <= MaxLength
  /\ PrivateKeys \subseteq Words

Sides == {"client", "server"}
Other(s) == IF s = "client" THEN "server" ELSE "client"

VARIABLES
  secert,      (* both configurations have Secert                          *)
  wire,        (* bytes on their way to a side                             *)
  pc,          (* where the side's DoRecv stands                           *)
  cache,       (* the bytes received and not cut yet                       *)
  hasRecvFlag, (* the handshake is over                                    *)
  private,     (* the private key of the side's key pair                   *)
  secertKey,   (* the key of the cipher                                    *)
  told,        (* the application has been told of the connection          *)
  sends,       (* how many messages the application has sent               *)
  sent,        (* the messages the side has sent, in order                 *)
  got,         (* the messages the side has handed to its application      *)
  zero,        (* KeyPair has drawn the private key 0                      *)
  early        (* a message has been sent before the sender's handshake    *)
               (* was over                                                 *)

keyVars == <<secert, private, secertKey, told, zero>>
vars == <<keyVars, wire, pc, cache, hasRecvFlag, sends, sent, got, early>>

-----------------------------------------------------------------------------
(* The packets of the handshake, and the key.                              *)

PackageHead(ack, data) == PutUint32(5 + Len(data)) \o <<ack>> \o data
AckMsg == PackageHead(1, SW)
KeyPacket(ack, publicKey) == PackageHead(ack, PutUint64(publicKey))

Ack(packet)  == packet[5]
Data(packet) == SubSeq(packet, 6, Len(packet))

(* The decimal digits, repeated up to 32; each pair of them is a byte.     *)
Digits[n \in Words] == IF n < Ten THEN <<n>> ELSE Append(Digits[n \div Ten], n % Ten)
KeyOf == [secret \in Words |->
  LET d == Digits[secret]
      digit(j) == d[1 + (j % Len(d))]
  IN [i \in 1 .. 16 |-> Ten * digit(2 * i - 2) + digit(2 * i - 1)]]

Heartbeat(uid) == NewMessage(MsgHeartbeat, uid, <<>>)

(* What the sides may send: the fields of a message fit their widths, the  *)
(* length of its packet fits the head, and Decrypt of the library undoes   *)
(* its Encrypt.                                                            *)
Messages ==
  Letters \cup {Heartbeat(uid) : uid \in {ClientUid} \cup {msg.uid : msg \in Letters}}

ASSUME MessageAssumption ==
  \A msg \in Messages :
    /\ msg \in [cmd : 0 .. Word32 - 1, uid : Int, data : Seq(0 .. Byte - 1)]
    /\ -Word32 <= 2 * msg.uid /\ 2 * msg.uid < Word32
    /\ Len(msg.data) + 12 < Word32

ASSUME CipherAssumption ==
  \A msg \in Messages, k \in Words :
    LET text == Cipher(MkMessage(msg), KeyOf[k])
    IN /\ text \in Seq(0 .. Byte - 1) /\ Len(text) + 4 < Word32
       /\ Decipher(text, KeyOf[k]) = MkMessage(msg)

Pack(msg, key) == IF secert THEN EnBinaryPackage(msg, key) ELSE Encode(msg)

(* A side has closed its connection; the server's DoRecv may be lost in    *)
(* what it had read before.                                                *)
Closed(s) == pc[s] \in {"closed", "lost"}

(* conn.Write: nothing leaves a side, or arrives at one, that has closed.  *)
Write(s, bytes) ==
  wire' = [wire EXCEPT ![Other(s)] =
             IF Closed(s) \/ Closed(Other(s)) THEN @ ELSE @ \o bytes]

Init ==
  /\ secert \in BOOLEAN
  /\ wire = [s \in Sides |-> IF secert /\ s = "server" THEN AckMsg ELSE <<>>]
  /\ pc = [s \in Sides |-> "read"]
  /\ cache = [s \in Sides |-> <<>>]
  /\ hasRecvFlag = [s \in Sides |-> ~secert]
  /\ private = [s \in Sides |-> 0]
  /\ secertKey = [s \in Sides |-> <<>>]
  /\ told = [s \in Sides |-> ~secert]
  /\ sends = [s \in Sides |-> 0]
  /\ sent = [s \in Sides |-> <<>>] /\ got = [s \in Sides |-> <<>>]
  /\ zero = FALSE /\ early = FALSE

-----------------------------------------------------------------------------
(* DoRecv.  Read returns some of the bytes that have arrived.              *)

Read(s) ==
  /\ pc[s] = "read"
  /\ \E n \in 1 .. Len(wire[s]) :
       /\ cache' = [cache EXCEPT ![s] = @ \o SubSeq(wire[s], 1, n)]
       /\ wire'  = [wire EXCEPT ![s] = SubSeq(@, n + 1, Len(@))]
  /\ pc' = [pc EXCEPT ![s] = "loop"]
  /\ UNCHANGED <<keyVars, hasRecvFlag, sends, sent, got, early>>

(* Read fails when the other side has closed, with or without the bytes    *)
(* that it had sent before.                                                *)
HangUp(s) ==
  /\ pc[s] = "read" /\ Closed(Other(s))
  /\ pc' = [pc EXCEPT ![s] = "closed"]
  /\ UNCHANGED <<keyVars, wire, cache, hasRecvFlag, sends, sent, got, early>>

pkglen(s) == ParsePacket(cache[s])
First(s)  == SubSeq(cache[s], 1, pkglen(s))
Handles(s) == pc[s] \in {"loop", "lost"}
AtPacket(s) == Handles(s) /\ pkglen(s) > 0

(* The packet is cut off the cache; or the side closes and returns.        *)
(* Mutant: only when something has been read behind the packet.            *)
CutIfMore(s) ==
  /\ cache' = [cache EXCEPT ![s] = IF Len(@) = pkglen(s) THEN @
                                   ELSE SubSeq(@, pkglen(s) + 1, Len(@))]
  /\ UNCHANGED pc
Cut(s) ==
  /\ cache' = [cache EXCEPT ![s] = SubSeq(@, pkglen(s) + 1, Len(@))]
  /\ UNCHANGED pc
Close(s) ==
  /\ pc' = [pc EXCEPT ![s] = "closed"]
  /\ wire' = [wire EXCEPT ![s] = <<>>]
  /\ UNCHANGED cache

(* The next Read of a lost connection does not come.                       *)
NeedMore(s) ==
  /\ Handles(s) /\ pkglen(s) = 0
  /\ pc' = [pc EXCEPT ![s] = IF @ = "loop" THEN "read" ELSE "closed"]
  /\ UNCHANGED <<keyVars, wire, cache, hasRecvFlag, sends, sent, got, early>>

BadLength(s) ==
  /\ Handles(s) /\ pkglen(s) < 0
  /\ Close(s)
  /\ UNCHANGED <<keyVars, hasRecvFlag, sends, sent, got, early>>

(* ProcessDoneMsg: the server answers a heartbeat before it hands it on.   *)
Message(s) ==
  /\ AtPacket(s) /\ hasRecvFlag[s]
  /\ \E msg \in {OnPacketComplete(First(s), secert, secertKey[s])} :
       IF msg = NoMessage
         THEN Close(s) /\ UNCHANGED <<sent, got>>
         ELSE /\ Cut(s)
              /\ got' = [got EXCEPT ![s] = Append(@, msg)]
              /\ IF s = "server" /\ msg.cmd = MsgHeartbeat
                   THEN /\ sent' = [sent EXCEPT ![s] = Append(@, Heartbeat(msg.uid))]
                        /\ Write(s, Pack(Heartbeat(msg.uid), secertKey[s]))
                   ELSE UNCHANGED <<sent, wire>>
  /\ UNCHANGED <<keyVars, hasRecvFlag, sends, early>>

(* A packet of the handshake.  One that is too short for its head, or for  *)
(* a key, panics in the code: the sides send none.                         *)
Shakes(s) == AtPacket(s) /\ ~hasRecvFlag[s] /\ Len(First(s)) >= 5
Key(packet) == Wrap(Uint64(Data(packet)))

(* The server gets 'SW': it draws a key pair and sends its public key,     *)
(* which fails on a lost connection.                                       *)
ServerGetsSW ==
  /\ Shakes("server") /\ Ack(First("server")) = 1
  /\ Data(First("server")) = SW
  /\ \E x \in PrivateKeys :
       /\ private' = [private EXCEPT !["server"] = x]
       /\ zero' = (zero \/ x = 0)
       /\ IF pc["server"] = "lost"
            THEN Close("server")
            ELSE Cut("server") /\ Write("server", KeyPacket(2, PublicKey(x)))
  /\ UNCHANGED <<secert, secertKey, told, hasRecvFlag, sends, sent, got, early>>

(* A greeting with other data is dropped: the error that is returned with  *)
(* it is nil.                                                              *)
DropPacket ==
  /\ Shakes("server") /\ Ack(First("server")) = 1
  /\ Data(First("server")) # SW
  /\ Cut("server")
  /\ UNCHANGED <<keyVars, wire, hasRecvFlag, sends, sent, got, early>>

(* The client gets the server's key: it draws a key pair, sends its public *)
(* key, derives the key, tells the application and sends a heartbeat.      *)
ClientGetsKey ==
  LET packet == First("client") IN
  /\ Shakes("client") /\ Ack(packet) = 2 /\ Len(packet) >= 13
  /\ \E x \in PrivateKeys :
       LET secret == Secret(x, Key(packet))
           reply  == KeyPacket(3, PublicKey(x))
           beat   == Heartbeat(ClientUid)
       IN /\ private' = [private EXCEPT !["client"] = x]
          /\ zero' = (zero \/ x = 0)
          /\ IF secret = Err
               THEN /\ pc' = [pc EXCEPT !["client"] = "closed"]
                    /\ Write("client", reply)
                    /\ UNCHANGED <<cache, secertKey, told, hasRecvFlag, sent>>
               ELSE /\ Cut("client")
                    /\ secertKey' = [secertKey EXCEPT !["client"] = KeyOf[secret]]
                    /\ told' = [told EXCEPT !["client"] = TRUE]
                    /\ hasRecvFlag' = [hasRecvFlag EXCEPT !["client"] = TRUE]
                    /\ sent' = [sent EXCEPT !["client"] = Append(@, beat)]
                    /\ Write("client", reply \o Pack(beat, KeyOf[secret]))
  /\ UNCHANGED <<secert, sends, got, early>>

(* The server gets the client's key and derives the key.  Mutant: from its *)
(* own public key.                                                         *)
ServerUsesOwnKey ==
  LET packet == First("server")
      secret == Secret(private["server"], PublicKey(private["server"]))
  IN /\ Shakes("server") /\ Ack(packet) = 3 /\ Len(packet) >= 13
     /\ IF secret = Err
          THEN Close("server") /\ UNCHANGED <<secertKey, told, hasRecvFlag>>
          ELSE /\ Cut("server")
               /\ secertKey' = [secertKey EXCEPT !["server"] = KeyOf[secret]]
               /\ hasRecvFlag' = [hasRecvFlag EXCEPT !["server"] = TRUE]
               /\ told' = [told EXCEPT !["server"] = TRUE]
               /\ UNCHANGED wire
     /\ UNCHANGED <<secert, private, zero, sends, sent, got, early>>
ServerGetsKey ==
  LET packet == First("server")
      secret == Secret(private["server"], Key(packet))
  IN /\ Shakes("server") /\ Ack(packet) = 3 /\ Len(packet) >= 13
     /\ IF secret = Err
          THEN Close("server") /\ UNCHANGED <<secertKey, told, hasRecvFlag>>
          ELSE /\ Cut("server")
               /\ secertKey' = [secertKey EXCEPT !["server"] = KeyOf[secret]]
               /\ hasRecvFlag' = [hasRecvFlag EXCEPT !["server"] = TRUE]
               /\ told' = [told EXCEPT !["server"] = TRUE]
               /\ UNCHANGED wire
     /\ UNCHANGED <<secert, private, zero, sends, sent, got, early>>

(* Any other acknowledgement closes the connection, but the error that is  *)
(* returned is nil again: the server cuts the packet off and goes on.  The *)
(* client goes on too, to no effect: a key's answer cannot be written.     *)
AckError(s) ==
  /\ Shakes(s)
  /\ Ack(First(s)) \notin IF s = "server" THEN {1, 3} ELSE {2}
  /\ pc' = [pc EXCEPT ![s] = IF s = "server" THEN "lost" ELSE "closed"]
  /\ cache' = [cache EXCEPT ![s] = SubSeq(@, pkglen(s) + 1, Len(@))]
  /\ wire' = [wire EXCEPT ![s] = <<>>]
  /\ UNCHANGED <<keyVars, hasRecvFlag, sends, sent, got, early>>

-----------------------------------------------------------------------------
(* Client.SendMessage and asyncWrite, called by the application, for one   *)
(* connection or for all; a message is packed with the key that is there.  *)
Send(s, msg) ==
  /\ ~Closed(s) /\ sends[s] < Sends
  /\ sends' = [sends EXCEPT ![s] = @ + 1]
  /\ sent' = [sent EXCEPT ![s] = Append(@, msg)]
  /\ early' = (early \/ ~hasRecvFlag[s])
  /\ Write(s, Pack(msg, secertKey[s]))
  /\ UNCHANGED <<keyVars, pc, cache, hasRecvFlag, got>>

DoRecv(s) ==
  \/ Read(s) \/ HangUp(s) \/ NeedMore(s) \/ BadLength(s) \/ Message(s) \/ AckError(s)
  \/ s = "server" /\ (ServerGetsSW \/ DropPacket \/ ServerGetsKey)
  \/ s = "client" /\ ClientGetsKey

Next == \E s \in Sides : DoRecv(s) \/ \E msg \in Letters : Send(s, msg)

Spec == Init /\ [][Next]_vars

-----------------------------------------------------------------------------
(* The types, as long as no message has been sent early.                   *)
TypeOK ==
  /\ early \in BOOLEAN /\ zero \in BOOLEAN
  /\ ~early =>
       /\ \A s \in Sides : \A i \in 1 .. Len(wire[s]) : wire[s][i] \in 0 .. Byte - 1
       /\ pc \in [Sides -> {"read", "loop", "closed"}]
       /\ private \in [Sides -> Words]
       /\ secertKey \in [Sides -> {<<>>} \cup [1 .. 16 -> 0 .. Byte - 1]]
       /\ hasRecvFlag \in [Sides -> BOOLEAN] /\ told \in [Sides -> BOOLEAN]

(* However the stream is cut up on its way, a side hands its application   *)
(* the messages that the other side has sent, unchanged, in their order    *)
(* and once, unless a message has been sent before the sender's handshake  *)
(* was over.                                                               *)
InOrder == ~early => \A s \in Sides : IsPrefix(got[s], sent[Other(s)])

(* When both sides have finished an encrypted handshake they have the same *)
(* key, and it is of sixteen bytes however short the secret, unless a      *)
(* message has been sent early.                                            *)
KeysAgree ==
  secert /\ ~early /\ (\A s \in Sides : hasRecvFlag[s]) =>
    secertKey["client"] = secertKey["server"] /\ Len(secertKey["server"]) = 16

(* A side closes only because of a private key 0, of a message whose       *)
(* packet is longer than MaxLength, or of one that was sent before the     *)
(* sender's handshake was over: no other message, no other key that a side *)
(* may draw and no way of cutting the stream ends a session.               *)
ClosedForCause ==
  (\E s \in Sides : Closed(s)) =>
    \/ \E s \in Sides : \E i \in 1 .. Len(sent[s]) :
         Len(Pack(sent[s][i], secertKey[s])) > MaxLength
    \/ zero
    \/ early

(* When both sides wait for bytes and none are on their way, nothing is    *)
(* owed: both applications have been told of the connection, and every     *)
(* message that was sent has been handed on.  A session without an early   *)
(* message only ends in such a state, or with a closed side.               *)
NothingOwed ==
  ~early /\ (\A s \in Sides : pc[s] = "read" /\ wire[s] = <<>>) =>
    \A s \in Sides : told[s] /\ got[s] = sent[Other(s)] /\ cache[s] = <<>>

(* What an application may think that gets no error from Broadcast, which  *)
(* is false: a message that fits ends no session whose keys are not 0.     *)
NeverClosedByMessages ==
  (\E s \in Sides : Closed(s)) =>
    \/ \E s \in Sides : \E i \in 1 .. Len(sent[s]) :
         Len(Pack(sent[s][i], secertKey[s])) > MaxLength
    \/ zero
=============================================================================
