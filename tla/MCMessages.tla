----------------------------- MODULE MCMessages -----------------------------
(* What peers send: one event with its elements in every combination, and
   events of other types with few. *)
EXTENDS Messages

One(nodes) == {<<>>} \cup {<<n>> : n \in nodes}
El(name, attrs) == Element(name, attrs, <<>>)

\* An endpoint alone, a callsign alone, both, with a telephone number, and in a namespace.
XmlContacts == {El("contact", <<<<"endpoint", "e">>>>), El("contact", <<<<"callsign", "A">>>>),
                El("contact", <<<<"endpoint", "e">>, <<"callsign", "A">>>>),
                El("contact", <<<<"callsign", "A">>, <<"endpoint", "e">>, <<"phone", "5">>>>),
                El("contact", <<<<"callsign", "A">>, <<"phone", "5">>>>),
                El("contact", <<<<"xmlns", "n">>, <<"callsign", "A">>, <<"endpoint", "e">>>>)}
XmlGroups == {El("__group", <<<<"role", "HQ">>, <<"name", "Red">>, <<"exrole", "x">>>>)}
XmlStatuses == {El("status", <<<<"battery", "50">>, <<"readiness", "true">>>>), El("status", <<<<"battery", "50">>>>), El("status", <<<<"readiness", "true">>>>)}
\* A link to a parent without a uid; an element in a namespace, and one in that.
XmlOthers == {<<>>,
              <<El("link", <<<<"relation", "p-p">>, <<"parent_callsign", "P">>>>),
                Element("x", <<<<"xmlns", "n">>, <<"k", "v">>>>, <<El("y", <<>>)>>)>>,
              <<El("takv", <<<<"os", "29">>, <<"version", "4">>>>),
                El("track", <<<<"speed", "10,0">>>>),
                Element("marti", <<>>, <<El("dest", <<<<"callsign", "B">>>>),
                                         El("dest", <<<<"mission", "m">>>>)>>),
                El("link", <<<<"uid", "p">>, <<"relation", "p-p">>, <<"parent_callsign", "P">>>>),
                El("color", <<<<"argb", "-1">>>>), El("remarks", <<>>)>>}
Elements == {c \o g \o s \o o : c \in One(XmlContacts), g \in One(XmlGroups),
                                s \in One(XmlStatuses), o \in XmlOthers}

\* A detail without attributes, with one, and in a namespace.
Details == {Element("detail", a, e) : a \in {<<>>, <<<<"v", "1">>>>, <<<<"xmlns", "n">>>>}, e \in Elements}

ProtoFields == {[NoFields EXCEPT !["contact"] = c, !["__group"] = g, !["status"] = s] :
                  c \in {Unset} \cup [{"callsign", "endpoint"} -> {"", "C"}],
                  g \in {Unset, [name |-> "Blue", role |-> ""]},
                  s \in {Unset, [battery |-> "0"]}}

Unit == <<"a", "f", "G", "U", "C">>
Types == {<<"a", "f">>, <<"a", "h", "G">>, <<"a", "f", "G", "U", "C", "I", "X", "Y", "Z">>,
          <<"a", "f", "G", "U", "C", "I", "X", "Y", "Z", "W">>, <<"a", "f", "G", "E", "Gun", "x">>,
          <<"u", "d", "f">>, <<"b", "m", "p", "s", "m">>, <<"b", "t", "f">>, <<"b", "t", "f", "r">>,
          <<"b", "f", "t", "a">>, <<"t", "x", "c", "t">>, <<"t", "b">>, <<"t", "x", "d", "d">>, <<"y">>}

MCOrigins ==
  [kind : {"xml"}, body : [type : {Unit}, placed : {TRUE}, detail : Details]
                    \cup [type : Types, placed : BOOLEAN, detail : {Element("detail", <<>>, e) : e \in One(XmlContacts)}]]
  \cup [kind : {"proto"},
        body : [type : {Unit}, placed : {TRUE}, fields : ProtoFields,
                xml : Elements \cup {<<Element("detail", <<>>, e)>> : e \in Elements}]]
  \cup [kind : {"chat"},
        body : [id : {"1"}, parent : {"", "r"}, chatroom : {"B", "all"}, from : {"", "A"},
                fromUID : {"a"}, toUID : {"b", "all"}, direct : {FALSE}]]

MCPatterns == {<<".", "">>, <<"a", "">>, <<"a", "f">>, <<"a", "f", "">>, <<"a", ".", "G">>,
               <<"a", ".", "G", "">>, <<".", "f", "">>, <<"t", "x", ".", "t">>, <<"b", "t", "f">>,
               <<"b", "t", "f", "">>, <<".", ".">>, <<"y", "">>, <<"y">>}
=============================================================================
