------------------------------- MODULE Parsers -------------------------------
(***************************************************************************)
(* parser/gttparser.cpp over parser/lineparser.cpp, and the loop of        *)
(* N2NP::Node::eat and RelaySocket::eat around it: packets that come as a  *)
(* stream of bytes cut anywhere.                                           *)
(*                                                                         *)
(* A character stands for a piece of text that the parser tells apart:     *)
(*   "F"         a first line, protocol and method                         *)
(*   "h", "e"    a header, with a value or without                         *)
(*   in LengthOf the header content-length, with the value it gives        *)
(*   "cr", "lf"  the two bytes of an end of line                           *)
(* Bodies hold any of them.                                                *)
(***************************************************************************)
EXTENDS Naturals, Sequences, SequencesExt, FiniteSetsExt

CONSTANTS Streams,    \* the sequences of packets that may be sent
          LengthOf    \* the lengths of bodies that are not empty

Chars == {"F", "h", "e", "cr", "lf"} \cup DOMAIN LengthOf

GTTPackets == [headers : Seq({"h", "e"}), body : Seq(Chars)]

ASSUME LengthOfAssumption ==
  /\ LengthOf \in [DOMAIN LengthOf -> Nat \ {0}]
  /\ DOMAIN LengthOf \cap {"F", "h", "e", "cr", "lf"} = {}
ASSUME StreamsAssumption ==
  \A s \in Streams :
    /\ s \in Seq(GTTPackets)
    /\ \A i \in 1..Len(s) :
         s[i].body # <<>> => \E c \in DOMAIN LengthOf : LengthOf[c] = Len(s[i].body)

VARIABLES
  sent,         \* the packets of the stream
  wire,         \* its characters that have not arrived
  buffer,       \* LineParser::buffer
  datapos,      \* "firstLine", "headers", "content"
  currentPkt,   \* the headers read so far
  currentSize,
  eating,       \* whether the loop of eat() is running
  parsed        \* the packets it got

parseVars == <<sent, wire, buffer, datapos, currentPkt, currentSize, eating, parsed>>

-----------------------------------------------------------------------------
(* GTTPacket::build *)

Crlf == <<"cr", "lf">>

Lines(texts) == FlattenSeq([i \in 1..Len(texts) |-> <<texts[i]>> \o Crlf])

Length(body) == IF body = <<>> THEN <<>> ELSE <<CHOOSE c \in DOMAIN LengthOf : LengthOf[c] = Len(body)>>

Build(p) == Lines(<<"F">> \o p.headers \o Length(p.body)) \o Crlf \o p.body

ParsersInit ==
  /\ sent \in Streams
  /\ wire = FlattenSeq([i \in 1..Len(sent) |-> Build(sent[i])])
  /\ buffer = <<>> /\ datapos = "firstLine" /\ currentPkt = <<>> /\ currentSize = 0
  /\ eating = FALSE /\ parsed = <<>>

-----------------------------------------------------------------------------
(* LineParser *)

HasLine == Contains(buffer, "lf")

EndOfLine == Min({i \in 1..Len(buffer) : buffer[i] = "lf"})

\* The line that popLine gives, without its cr
FrontLine ==
  LET i == EndOfLine
  IN  SubSeq(buffer, 1, IF i > 1 /\ buffer[i - 1] = "cr" THEN i - 2 ELSE i - 1)

PopLine == buffer' = SubSeq(buffer, EndOfLine + 1, Len(buffer))

\* Mutant: popData wants more than it gives.
MoreThanSize == Len(buffer) > currentSize

HasData == Len(buffer) >= currentSize

-----------------------------------------------------------------------------
(* GTTParser::getPacket, one case of its switch at a time *)

\* A chunk arrives.
Eat(n) ==
  /\ ~eating /\ n <= Len(wire)
  /\ buffer' = buffer \o SubSeq(wire, 1, n)
  /\ wire' = SubSeq(wire, n + 1, Len(wire))
  /\ eating' = TRUE
  /\ UNCHANGED <<sent, datapos, currentPkt, currentSize, parsed>>

StartPacket == datapos' = "firstLine" /\ currentPkt' = <<>> /\ currentSize' = 0

Within(pos) == eating /\ datapos = pos

ValidFirst == FrontLine = <<"F">>

ValidLength == FrontLine \in {<<c>> : c \in DOMAIN LengthOf} /\ currentSize = 0

ParseFirstLine ==
  /\ Within("firstLine") /\ HasLine /\ ValidFirst
  /\ PopLine /\ datapos' = "headers" /\ currentSize' = 0
  /\ UNCHANGED <<sent, wire, currentPkt, eating, parsed>>

ParseHeader ==
  /\ Within("headers") /\ HasLine /\ FrontLine = <<"h">>
  /\ PopLine /\ currentPkt' = Append(currentPkt, "h")
  /\ UNCHANGED <<sent, wire, datapos, currentSize, eating, parsed>>

ParseLength ==
  /\ Within("headers") /\ HasLine /\ ValidLength
  /\ PopLine /\ currentSize' = LengthOf[FrontLine[1]]
  /\ UNCHANGED <<sent, wire, datapos, currentPkt, eating, parsed>>

EndHeaders ==
  /\ Within("headers") /\ HasLine /\ FrontLine = <<>>
  /\ PopLine /\ datapos' = "content"
  /\ UNCHANGED <<sent, wire, currentPkt, currentSize, eating, parsed>>

ParseContent ==
  /\ Within("content") /\ HasData
  /\ parsed' = Append(parsed, [headers |-> currentPkt, body |-> SubSeq(buffer, 1, currentSize)])
  /\ buffer' = SubSeq(buffer, currentSize + 1, Len(buffer))
  /\ StartPacket
  /\ UNCHANGED <<sent, wire, eating>>

\* getPacket returns NULL without error.
Starve ==
  /\ eating /\ IF datapos = "content" THEN ~HasData ELSE ~HasLine
  /\ eating' = FALSE
  /\ UNCHANGED <<sent, wire, buffer, datapos, currentPkt, currentSize, parsed>>

\* A ParserException: eat() resets the parser, with all that is in its buffer.
Reject ==
  /\ eating /\ HasLine
  /\ \/ datapos = "firstLine" /\ ~ValidFirst
     \/ datapos = "headers" /\ FrontLine \notin {<<>>, <<"h">>} /\ ~ValidLength
  /\ buffer' = <<>> /\ eating' = FALSE
  /\ StartPacket
  /\ UNCHANGED <<sent, wire, parsed>>

ParsersNext ==
  \/ \E n \in 1..Len(wire) : Eat(n)
  \/ ParseFirstLine \/ ParseHeader \/ ParseLength \/ EndHeaders \/ ParseContent
  \/ Starve \/ Reject

ParsersSpec == ParsersInit /\ [][ParsersNext]_parseVars

-----------------------------------------------------------------------------
(* Safety *)

\* build() writes a header without value, which the parser rejects.
WellFormed(p) == ~Contains(p.headers, "e")

\* The packets before the first one that is not well formed
Sound == SelectInSeq(sent, LAMBDA p : ~WellFormed(p))
NbSound == IF Sound = 0 THEN Len(sent) ELSE Sound - 1

\* However a stream is cut, inside an end of line or a body that looks like the
\* next packet, the well formed packets at its start are parsed one for one, in
\* their order and with their bodies, nothing comes between them, and all of them
\* are out when their last byte has come, without waiting for another.
CutsDoNotMatter ==
  /\ \A i \in 1..Len(parsed) : i <= NbSound => parsed[i] = sent[i]
  /\ wire = <<>> /\ ~eating => Len(parsed) >= NbSound
  /\ NbSound = Len(sent) => Len(parsed) <= NbSound

-----------------------------------------------------------------------------
(* The inductive invariant *)

\* The characters of the packets after the i-th
Suffix(i) == FlattenSeq([j \in 1..(Len(sent) - i) |-> Build(sent[i + j])])

\* The header lines of p that were not read: the length is the last of them.
Unread(p) ==
  IF currentSize # 0 THEN <<>>
  ELSE SubSeq(p.headers, Len(currentPkt) + 1, Len(p.headers)) \o Length(p.body)

\* What was read of the packet p, and what comes next
Reading(p, after) ==
  /\ datapos = "firstLine" =>
       /\ currentPkt = <<>> /\ currentSize = 0
       /\ buffer \o wire = Build(p) \o after
  /\ datapos = "headers" =>
       /\ Len(currentPkt) <= Len(p.headers)
       /\ currentPkt = SubSeq(p.headers, 1, Len(currentPkt))
       /\ currentSize # 0 => currentPkt = p.headers /\ currentSize = Len(p.body)
       /\ buffer \o wire = Lines(Unread(p)) \o (Crlf \o (p.body \o after))
  /\ datapos = "content" =>
       /\ currentPkt = p.headers /\ currentSize = Len(p.body)
       /\ buffer \o wire = p.body \o after

ParsersOK ==
  /\ buffer \in Seq(Chars) /\ wire \in Seq(Chars)
  /\ datapos \in {"firstLine", "headers", "content"}
  /\ currentPkt \in Seq({"h", "e"}) /\ currentSize \in Nat
  /\ parsed \in Seq(GTTPackets) /\ sent \in Streams

\* What was parsed of the sound start of the stream is what was sent.
PrefixOK == \A i \in 1..Len(parsed) : i <= NbSound => parsed[i] = sent[i]

\* Until a packet comes that is not well formed, the parser is where the stream is.
ReadingOK ==
  Len(parsed) < NbSound => Reading(sent[Len(parsed) + 1], Suffix(Len(parsed) + 1))

\* Nothing is left of a stream that was parsed to its end.
EndOK ==
  NbSound = Len(sent) =>
    /\ Len(parsed) <= NbSound
    /\ Len(parsed) = NbSound => buffer = <<>> /\ wire = <<>> /\ datapos = "firstLine"

\* The loop stops only for want of characters.
HungryOK == ~eating => ~(IF datapos = "content" THEN HasData ELSE HasLine)

ParsersInv == ParsersOK /\ PrefixOK /\ ReadingOK /\ EndOK /\ HungryOK
=============================================================================
