------------------------------ MODULE Messages ------------------------------
(***************************************************************************)
(* What becomes of a message that is written and read again.               *)
(*                                                                         *)
(* A CoT message has two forms.  In XML everything stands in the elements  *)
(* of detail; in protobuf six of these elements are fields of their own    *)
(* and the others a text in XmlDetail.  A server keeps the protobuf form,  *)
(* converts at the border of a connection of version 0, and looks at both  *)
(* places when it asks for a callsign or a team.  Servers pass messages on *)
(* to servers, and pages of the web client read an item and post it back,  *)
(* so that a message goes through many conversions.                        *)
(*                                                                         *)
(* An element is its name, its attributes in order, and its elements; its  *)
(* text goes with it, and a remarks element is one that has a text.  An    *)
(* element is in the namespace of the nearest xmlns attribute around it;   *)
(* prefixes are not modelled.  The order in which Go walks a map of        *)
(* attributes is not kept: two attributes of one map have different names. *)
(* Times, uid and the other scalars of an event are copied and left out.   *)
(* A type is the sequence of the tokens between its dashes, so that a      *)
(* pattern that ends with a dash has an empty last token.                  *)
(***************************************************************************)
EXTENDS Integers, FiniteSets, SequencesExt

CONSTANTS Origins,    \* what a sender wrote: its kind, "xml", "proto" or "chat", and the
                      \* event, the CotEvent or the chat message of a page
          Namespaces, \* those elements are in
          Patterns,   \* patterns of types, as processors and configuration give them
          MaxDepth,   \* bound: how deep elements lie in each other
          MaxHops     \* bound: connections a message passes, and times it is posted back

ASSUME MessagesAssumption == MaxHops \in Nat /\ MaxDepth \in Nat

VARIABLES msg,    \* the message at the server (or client) it has reached
          first,  \* as it was at the first of them
          from,   \* what the sender wrote
          hops,   \* conversions since
          posted  \* a page has posted it back

vars == <<msg, first, from, hops, posted>>
-----------------------------------------------------------------------------
(* Patterns of types. *)

EndsWithDash(p) == Len(p) > 1 /\ Last(p) = ""
TrimRight(p) == SubSeq(p, 1, Max({1} \cup {i \in DOMAIN p : p[i] # ""}))

\* Mutant: any prefix matches.
MatchPatternPrefix(a, p) ==
  \/ p = <<".", "">>
  \/ IsPrefix(TrimRight(p), a)
  \/ /\ Len(a) >= Len(TrimRight(p))
     /\ \A i \in DOMAIN TrimRight(p) : TrimRight(p)[i] \in {a[i], "."}
     /\ EndsWithDash(p) <=> Len(a) > Len(TrimRight(p))

MatchPattern(a, p) ==
  LET t == TrimRight(p) IN
  \/ p = <<".", "">>
  \/ a = p
  \/ EndsWithDash(p) /\ Len(a) >= Len(p) /\ IsPrefix(Front(p), a)
  \/ /\ \E i \in DOMAIN p : p[i] = "."
     /\ Len(a) >= Len(t)
     /\ \A i \in DOMAIN t : t[i] \in {a[i], "."}
     /\ EndsWithDash(p) <=> Len(a) > Len(t)

MatchAnyPattern(a, ps) == \E p \in ps : MatchPattern(a, p)
-----------------------------------------------------------------------------
(* Elements. *)

Element(name, attrs, nodes) == [name |-> name, attrs |-> attrs, nodes |-> nodes]
Nothing == Element("", <<>>, <<>>)

GetAll(nodes, name) == SelectSeq(nodes, LAMBDA n : n.name = name)
Has(nodes, name) == GetAll(nodes, name) # <<>>
GetFirst(nodes, name) == IF Has(nodes, name) THEN GetAll(nodes, name)[1] ELSE Nothing

GetAttr(n, key) ==
  LET hits == SelectSeq(n.attrs, LAMBDA a : a[1] = key)
  IN  IF hits = <<>> THEN "" ELSE hits[1][2]

\* The keys of the map GetAttrs builds.
GetAttrs(n) == {n.attrs[i][1] : i \in DOMAIN n.attrs}

RemoveTags(nodes, tags) == SelectSeq(nodes, LAMBDA n : n.name \notin tags)

\* Parameters are functions from names to values.
Attributes(params) == SetToSeq({<<k, params[k]>> : k \in DOMAIN params})
NotEmpty(attrs) == SelectSeq(attrs, LAMBDA a : a[2] # "")
AddChild(nodes, name, params, below) ==
  Append(nodes, Element(name, NotEmpty(Attributes(params)), below))

AddOrChangeChild(nodes, name, params) ==
  IF ~Has(nodes, name) THEN AddChild(nodes, name, params, <<>>)
  ELSE LET i == Min({j \in DOMAIN nodes : nodes[j].name = name})
       IN  [nodes EXCEPT ![i].attrs = @ \o Attributes(params)]

AddPpLink(nodes, uid, typ, callsign) ==
  AddChild(nodes, "link", [uid |-> uid, type |-> typ, parent_callsign |-> callsign,
                           relation |-> "p-p"], <<>>)

\* Nodes with the attributes NewAttrs gives each element, of its attributes and namespace.
Rewritten(nodes, NewAttrs(_, _)) ==
  LET at[d \in 0..MaxDepth] ==
        IF d = 0 THEN {nodes} ELSE UNION {{s[i].nodes : i \in DOMAIN s} : s \in at[d - 1]}
      space(n, outer) == IF "xmlns" \in GetAttrs(n) THEN GetAttr(n, "xmlns") ELSE outer
      walk[s \in UNION Range(at), outer \in Namespaces \cup {""}] ==
        [i \in DOMAIN s |-> LET own == space(s[i], outer)
                            IN  Element(s[i].name, NewAttrs(s[i].attrs, own), walk[s[i].nodes, own])]
  IN  walk[nodes, ""]

\* encoding/xml (external) keeps the xmlns of what it has read among the attributes, and
\* writes that of the name besides.
Encode(nodes) == Rewritten(nodes, LAMBDA attrs, own : NotEmpty(<<<<"xmlns", own>>>>) \o attrs)

\* A text that begins with <detail> is taken for the whole element; one that begins with
\* a detail that has attributes is put into another.
DetailsFromString(xml) ==
  IF xml # <<>> /\ xml[1].name = "detail" /\ xml[1].attrs = <<>> THEN xml[1].nodes ELSE xml
-----------------------------------------------------------------------------
(* The two forms. *)

Fields == <<"contact", "status", "track", "takv", "__group", "precisionlocation">>
AttrsOf(tag) == CASE tag = "contact" -> {"callsign", "endpoint"}
                  [] tag = "status"  -> {"battery"}
                  [] tag = "track"   -> {"course", "speed"}
                  [] tag = "takv"    -> {"os", "version", "device", "platform"}
                  [] tag = "__group" -> {"name", "role"}
                  [] tag = "precisionlocation" -> {"altsrc", "geopointsrc"}

Unset == [a \in {} |-> ""]
NoFields == [tag \in Range(Fields) |-> Unset]
IsSet(c, tag) == DOMAIN c.fields[tag] # {}

\* Getters of protobuf: an unset message reads as empty.
Get(c, tag, attr) == IF IsSet(c, tag) THEN c.fields[tag][attr] ELSE ""

\* Numbers: speed and course are printed with six decimals; a comma is read as
\* a point, and what is no number as zero.  A battery that is no number is no status.
Printed(tag, v) == IF tag = "track" THEN v \o ".000000" ELSE v
getFloat(s) == IF s \in {"10", "10,0", "10.000000"} THEN "10" ELSE "0"
Batteries == {"0", "50"}

\* The event as it is written.
CotToEvent(c) ==
  LET shown(tag) == IF tag = "contact" THEN Get(c, tag, "callsign") # "" ELSE IsSet(c, tag)
      attrs(tag) == [a \in AttrsOf(tag) |-> Printed(tag, c.fields[tag][a])]
      add(nodes, tag) == IF shown(tag) THEN AddOrChangeChild(nodes, tag, attrs(tag)) ELSE nodes
  IN  [type |-> c.type, placed |-> c.placed,
       detail |-> Element("detail", <<>>, Encode(FoldLeft(add, c.xml, Fields)))]

\* A contact with three attributes or more stays an element.
ExtContact(nodes) == Cardinality(GetAttrs(GetFirst(nodes, "contact"))) >= 3

\* Mutant: a contact with more attributes is removed.
GetXMLDetailsAll(d, withContacts) == RemoveTags(DetailsFromString(Encode(<<d>>)), Range(Fields))

GetXMLDetails(d, withContacts) ==
  RemoveTags(DetailsFromString(Encode(<<d>>)),
             Range(Fields) \ (IF withContacts THEN {"contact"} ELSE {}))

EventToProto(ev) ==
  LET d == ev.detail.nodes
      read(tag, a) == LET v == GetAttr(GetFirst(d, tag), a)
                      IN  IF tag = "track" THEN getFloat(v) ELSE v
      taken(tag) == /\ Has(d, tag)
                    /\ tag = "contact" => ~ExtContact(d)
                    /\ tag = "status" => read(tag, "battery") \in Batteries
      xd == GetXMLDetails(ev.detail, ExtContact(d))
      c == [type |-> ev.type, placed |-> ev.placed, xml |-> Encode(xd),
            fields |-> [tag \in Range(Fields) |->
                          IF taken(tag) THEN [a \in AttrsOf(tag) |-> read(tag, a)] ELSE Unset]]
  IN  [cot |-> c, detail |-> xd]

CotFromProto(c) == [cot |-> c, detail |-> DetailsFromString(c.xml)]
-----------------------------------------------------------------------------
(* What a server asks of a message. *)

\* cmp.Or: the field, or else the element.
Either(m, tag, attr) ==
  IF Get(m.cot, tag, attr) # "" THEN Get(m.cot, tag, attr)
  ELSE GetAttr(GetFirst(m.detail, tag), attr)

GetCallsign(m) == Either(m, "contact", "callsign")
GetEndpoint(m) == Either(m, "contact", "endpoint")
GetTeam(m) == Either(m, "__group", "name")
GetRole(m) == Either(m, "__group", "role")
GetExRole(m) == GetAttr(GetFirst(m.detail, "__group"), "exrole")
GetTakv(m) == IF IsSet(m.cot, "takv") THEN m.cot.fields["takv"]
              ELSE IF Has(m.detail, "takv")
                   THEN [a \in AttrsOf("takv") |-> GetAttr(GetFirst(m.detail, "takv"), a)]
                   ELSE Unset

GetFirstLink(m, relation) ==
  LET links == SelectSeq(GetAll(m.detail, "link"), LAMBDA l : GetAttr(l, "relation") = relation)
  IN  IF links = <<>> THEN Nothing ELSE links[1]
GetParent(m) == LET l == GetFirstLink(m, "p-p")
                IN  <<GetAttr(l, "uid"), GetAttr(l, "parent_callsign")>>

getDestFor(m, kind) ==
  LET dests == GetAll(GetFirst(m.detail, "marti").nodes, "dest")
  IN  SelectSeq([i \in DOMAIN dests |-> GetAttr(dests[i], kind)], LAMBDA d : d # "")

IsContact(m) == IsPrefix(<<"a", "f">>, m.cot.type) /\ Len(m.cot.type) > 2 /\ GetEndpoint(m) # ""
IsChat(m) == m.cot.type = <<"b", "t", "f">>
IsChatReceipt(m) == \E x \in {"d", "p", "r", "s", "u"} : m.cot.type = <<"b", "t", "f", x>>
IsFileTransfer(m) == \E x \in {"r", "a"} : m.cot.type = <<"b", "f", "t", x>>
IsPing(m) == m.cot.type \in {<<"t", "x", "c", "t">>, <<"t", "x", "c", "t", "r">>}
IsControl(m) == MatchAnyPattern(m.cot.type,
  {<<"t", "b">>, <<"t", "b", "a">>, <<"t", "b", "c">>, <<"t", "b", "q">>,
   <<"t", "x", "takp", "q">>, <<"t", "x", "c", "m">>, <<"t", "x", "c", "i", "e">>,
   <<"t", "x", "c", "i", "d">>})
IsMapItem(m) ==
  \/ MatchAnyPattern(m.cot.type, {<<"a", "">>, <<"u", "">>})
  \/ /\ ~IsChat(m) /\ ~IsChatReceipt(m) /\ ~IsFileTransfer(m)
     /\ m.cot.placed /\ MatchAnyPattern(m.cot.type, {<<"b", "">>})

GetClass(m) ==
  CASE m.cot.type[1] = "a" /\ Len(m.cot.type) > 1 -> IF GetEndpoint(m) # "" THEN "contact" ELSE "unit"
    [] MatchAnyPattern(m.cot.type, {<<"b", "">>, <<"u", "">>}) -> "point"
    [] OTHER -> ""
-----------------------------------------------------------------------------
(* Pages: a unit is shown, and posted back. *)

\* How long the symbol code is: S, the affiliation, the dimension and P, the letters of
\* the function up to a token that is none, and dashes up to ten.  With seven letters
\* strings.Repeat is asked for -1 dashes, and panics.
getSIDC(t) ==
  LET letters == SubSeq(t, 4, Min({Len(t)} \cup {i - 1 : i \in {j \in 4..Len(t) : Len(t[j]) > 1}}))
      width(s, token) == s + Len(token)
      sidc == 1 + Len(t[2]) + (IF Len(t) > 2 THEN Len(t[3]) + 1 ELSE 2)
                + FoldLeft(width, 0, letters)
  IN  IF t[1] # "a" \/ Len(t) < 2 THEN 0
      ELSE IF sidc >= 12 THEN sidc
      ELSE IF 10 - sidc < 0 THEN -1 ELSE 10

ToWeb(m) == [type |-> m.cot.type, placed |-> m.cot.placed, callsign |-> GetCallsign(m),
             category |-> GetClass(m),
             team |-> GetTeam(m), role |-> GetRole(m), exrole |-> GetExRole(m),
             sidc |-> getSIDC(m.cot.type), parent |-> GetParent(m),
             color |-> GetAttr(GetFirst(m.detail, "color"), "argb"),
             missions |-> getDestFor(m, "mission"),
             text |-> Has(m.detail, "remarks"),
             battery |-> IF IsSet(m.cot, "status") THEN Get(m.cot, "status", "battery") ELSE "0",
             takv |-> IF GetClass(m) = "contact" THEN GetTakv(m) ELSE Unset]

\* Mutant: the page's parent is lost.
ToMsgOrphan(w) ==
  LET xd == AddOrChangeChild(<<>>, "color", [argb |-> w.color])
  IN  [cot |-> [type |-> w.type, placed |-> w.placed, xml |-> xd,
                fields |-> [NoFields EXCEPT !["contact"] = [callsign |-> w.callsign, endpoint |-> ""]]],
       detail |-> xd]

ToMsg(w) ==
  LET link == IF w.parent[1] # "" THEN AddPpLink(<<>>, w.parent[1], "", w.parent[2]) ELSE <<>>
      shown == AddOrChangeChild(AddOrChangeChild(link, "status", [readiness |-> "true"]),
                                "color", [argb |-> w.color])
      xd == IF w.text THEN AddChild(shown, "remarks", Unset, <<>>) ELSE shown
  IN  [cot |-> [type |-> w.type, placed |-> w.placed, xml |-> xd,
                fields |-> [NoFields EXCEPT
                             !["contact"] = [callsign |-> w.callsign, endpoint |-> ""],
                             !["precisionlocation"] = [altsrc |-> "USER", geopointsrc |-> "USER"]]],
       detail |-> xd]
-----------------------------------------------------------------------------
(* Chat, as the web client writes and reads it. *)

MakeChatMessage(c) ==
  LET grp == AddOrChangeChild(<<>>, "chatgrp", [uid0 |-> c.fromUID, uid1 |-> c.toUID, id |-> c.toUID])
      chat == AddChild(AddPpLink(<<>>, c.fromUID, "", ""), "__chat",
                       [parent |-> c.parent, groupOwner |-> "false", chatroom |-> c.chatroom,
                        senderCallsign |-> c.from, id |-> c.toUID, messageId |-> c.id], grp)
      rem == AddChild(chat, "remarks", [source |-> c.fromUID, to |-> c.toUID], <<>>)
      xd == IF c.direct
            THEN AddChild(rem, "marti", Unset, AddChild(<<>>, "dest", [callsign |-> c.chatroom], <<>>))
            ELSE rem
  IN  [type |-> <<"b", "t", "f">>, placed |-> FALSE, xml |-> xd, fields |-> NoFields]

\* None without a chat element or a text.
MsgToChat(m) ==
  LET chat == GetFirst(m.detail, "__chat")
      linked == GetAttr(GetFirstLink(m, "p-p"), "uid")
      grouped == GetAttr(GetFirst(chat.nodes, "chatgrp"), "uid0")
  IN  IF ~Has(m.detail, "__chat") \/ ~Has(m.detail, "remarks") THEN <<>>
      ELSE <<[id |-> GetAttr(chat, "messageId"), parent |-> GetAttr(chat, "parent"),
              chatroom |-> GetAttr(chat, "chatroom"), from |-> GetAttr(chat, "senderCallsign"),
              toUID |-> GetAttr(chat, "id"),
              fromUID |-> IF linked # "" THEN linked ELSE grouped,
              direct |-> GetAttr(chat, "chatroom") # GetAttr(chat, "id")]>>

\* addMessageHandler marks a message direct when its room is not its recipient.
addMessage(c) == [c EXCEPT !.direct = @ \/ c.chatroom # c.toUID]
-----------------------------------------------------------------------------
(* The journey. *)

\* processXMLRead and processProtoRead; a page's chat message goes out as it is made.
Read(o) == CASE o.kind = "xml"   -> EventToProto(o.body)
             [] o.kind = "proto" -> CotFromProto(o.body)
             [] o.kind = "chat"  -> CotFromProto(MakeChatMessage(addMessage(o.body)))

Init == /\ from \in Origins
        /\ msg = Read(from) /\ first = msg
        /\ hops = 0 /\ posted = FALSE

\* SendCot to a peer of version 0, which reads what it was sent.
ForwardXml == /\ hops < MaxHops
              /\ msg' = EventToProto(CotToEvent(msg.cot))
              /\ hops' = hops + 1
              /\ UNCHANGED <<first, from, posted>>

\* SendCot to a peer of version 1.
ForwardProto == /\ hops < MaxHops
                /\ msg' = CotFromProto(msg.cot)
                /\ hops' = hops + 1
                /\ UNCHANGED <<first, from, posted>>

\* addItemHandler: a page posts the unit or point it was shown.
PostBack == /\ hops < MaxHops
            /\ IsMapItem(msg) /\ GetClass(msg) \in {"unit", "point"} /\ getSIDC(msg.cot.type) >= 0
            /\ msg' = ToMsg(ToWeb(msg))
            /\ hops' = hops + 1 /\ posted' = TRUE
            /\ UNCHANGED <<first, from>>

Next == ForwardXml \/ ForwardProto \/ PostBack
Spec == Init /\ [][Next]_vars
-----------------------------------------------------------------------------
(* Properties. *)

(* The model's shape: fields are unset or have all their attributes. *)
TypeOK == /\ \A tag \in Range(Fields) : DOMAIN msg.cot.fields[tag] \in {{}, AttrsOf(tag)}
          /\ \A n \in Range(msg.cot.xml) \cup Range(msg.detail) : DOMAIN n = DOMAIN Nothing
          /\ hops \in 0..MaxHops /\ posted \in BOOLEAN

(* What the conversions do not preserve: a contact with an endpoint and no callsign,
   which CotToEvent leaves out; *)
Nameless == GetCallsign(first) = "" /\ GetEndpoint(first) # ""
(* a protobuf message that has a field and in the element of that name one of its attributes,
   of which the element counts (detail.proto:49) and the field is read; *)
Doubled == \E tag \in Range(Fields) :
  IsSet(first.cot, tag) /\ GetAttrs(GetFirst(first.cot.xml, tag)) \cap AttrsOf(tag) # {}
(* one whose XmlDetail is a whole detail element, which CotToEvent puts into another; *)
Wrapped == from.kind = "proto" /\ first.cot.xml # first.detail
(* an event whose detail has attributes or is in a namespace, which the first server puts
   into another, where no accessor looks; *)
Hidden == from.kind = "xml" /\ Encode(<<from.body.detail>>)[1].attrs # <<>>
(* and of an element that becomes a field, the attributes that field has no place for, all
   of a status without a number of the battery, though the whole element should be left in
   XmlDetail (detail.proto:18). *)
Dropped(e) ==
  IF e.name = "contact" /\ Cardinality(GetAttrs(e)) >= 3 THEN {}
  ELSE IF e.name = "status" /\ GetAttr(e, "battery") \notin Batteries THEN GetAttrs(e)
  ELSE GetAttrs(e) \ AttrsOf(e.name)

Reads(m) == [callsign |-> GetCallsign(m), endpoint |-> GetEndpoint(m), team |-> GetTeam(m),
             role |-> GetRole(m), takv |-> GetTakv(m), parent |-> GetParent(m),
             dests |-> [kind \in {"callsign", "uid", "mission"} |-> getDestFor(m, kind)],
             class |-> GetClass(m), contact |-> IsContact(m)]

(* What the sender wrote, with an element of XmlDetail before the field. *)
Wrote ==
  LET nodes == IF from.kind = "xml" THEN from.body.detail.nodes ELSE DetailsFromString(from.body.xml)
      fields == [tag \in Range(Fields) |-> IF from.kind = "xml" \/ Has(nodes, tag) THEN Unset
                                           ELSE from.body.fields[tag]]
  IN  [cot |-> [type |-> from.body.type, placed |-> from.body.placed, xml |-> nodes, fields |-> fields],
       detail |-> nodes]
Followed == from.kind # "chat" /\ ~posted /\ ~Nameless /\ ~Doubled /\ ~Wrapped /\ ~Hidden

(* Every server on the way reads the contact, team, device, parent and addressees that the
   sender wrote, and classes the message alike, over connections of either version
   (converter.go and the accessors of cotmessage.go, which look at the field and then at
   the element). *)
ReadsAsSent == Followed => Reads(msg) = Reads(Wrote)

(* So it finds every attribute of the six elements, but those a field has no place for. *)
AttributesArrive ==
  Followed => \A tag \in {t \in Range(Fields) : Has(Wrote.detail, t)} :
    LET sent == GetFirst(Wrote.detail, tag)
        value(v) == IF tag = "track" THEN getFloat(v) ELSE v
    IN  \A a \in GetAttrs(sent) \ ({"xmlns"} \cup Dropped(sent)) :
          value(Either(msg, tag, a)) = value(GetAttr(sent, a))

(* What the first server makes of any message, the next ones make of it too. *)
ReadsTheSame == posted \/ Nameless \/ Doubled \/ Wrapped \/ Reads(msg) = Reads(first)

Bare(nodes) ==
  Rewritten(nodes, LAMBDA attrs, own : SelectSeq(attrs, LAMBDA a : a[1] # "xmlns"))

(* Elements that are no fields arrive as they were sent, in their order, but for xmlns, which
   every writing of an element in a namespace adds once more (node.go:72, converter.go:201):
   GetXMLDetails removes the six and nothing else. *)
OthersStay ==
  from.kind # "chat" =>
    posted \/ Wrapped \/ Hidden
    \/ RemoveTags(Bare(msg.detail), Range(Fields)) = RemoveTags(Bare(Wrote.detail), Range(Fields))

(* No element is written with another attribute twice, which is no XML: AddOrChangeChild
   appends to an element it finds without looking at what that has. *)
WrittenOnce ==
  Doubled \/ \A n \in Range(Bare(CotToEvent(msg.cot).detail.nodes)) : Len(n.attrs) = Cardinality(GetAttrs(n))

(* A chat message of a page is read as it was written wherever it arrives, and goes to
   the callsign it is for, or to everyone when it is for a room (model/chat.go). *)
ChatReadsTheSame ==
  from.kind = "chat" =>
    LET c == addMessage(from.body) IN
    /\ MsgToChat(msg) = <<c>>
    /\ getDestFor(msg, "callsign") = IF c.direct THEN <<c.chatroom>> ELSE <<>>

(* What a message says survives the way from server to server. *)
ConversionsKeep == /\ TypeOK /\ ReadsAsSent /\ AttributesArrive /\ ReadsTheSame /\ OthersStay
                   /\ WrittenOnce /\ ChatReadsTheSame

(* What a page posts back has the callsign, color and text that it was shown, and the parent
   if that has a uid, without which ToMsg writes no link (http.go:160), at the page's client
   and at every server it reaches afterwards (ToWeb and ToMsg). *)
PostingKeeps ==
  LET parent(m) == IF GetParent(m)[1] = "" THEN <<"", "">> ELSE GetParent(m)
      drawn(m) == <<m.cot.type, GetCallsign(m), parent(m), GetAttr(GetFirst(m.detail, "color"), "argb"),
                    Has(m.detail, "remarks")>>
  IN  posted /\ ~Wrapped /\ ~Doubled => drawn(msg) = drawn(first)

(* A pattern means its tokens, with "." for any one and a dash at the end for one more or
   several; the shortcuts of MatchPattern agree with that, but for ".-", which takes all. *)
FilterAgrees ==
  \A p \in Patterns :
    LET t == TrimRight(p)
        means(a) == \E more \in 0..Len(a) :
                      /\ Len(a) = Len(t) + more
                      /\ EndsWithDash(p) <=> more > 0
                      /\ \A i \in DOMAIN t : t[i] \in {".", a[i]}
    IN  MatchPattern(msg.cot.type, p) <=> p = <<".", "">> \/ means(msg.cot.type)

(* A message is of one kind only; what saveItemProcessor stores has a class, for FromMsg
   has no item for the others; and the contacts of a handler are contacts of the map. *)
KindsApart ==
  /\ Cardinality({i \in 1..6 : <<IsChat(msg), IsChatReceipt(msg), IsFileTransfer(msg),
                                 IsPing(msg), IsControl(msg), IsMapItem(msg)>>[i]}) <= 1
  /\ IsMapItem(msg) => GetClass(msg) # ""
  /\ IsContact(msg) => IsMapItem(msg) /\ GetClass(msg) = "contact"

(* The symbol code of a type with at most six letters of function is ten long; getSIDC
   panics with seven. *)
SidcFits == msg.cot.type[1] = "a" /\ Len(msg.cot.type) \in 2..9 => getSIDC(msg.cot.type) = 10

(* A type is matched, classed and drawn for what it is. *)
TypesUnderstood == FilterAgrees /\ KindsApart /\ SidcFits
=============================================================================
