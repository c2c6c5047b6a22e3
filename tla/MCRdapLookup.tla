---------------------------- MODULE MCRdapLookup -----------------------------
(***************************************************************************)
(* Documents and bootstrap files for RdapLookup.  Statuses, entities,      *)
(* cards and links are varied one kind at a time, the others kept fixed.   *)
(***************************************************************************)
EXTENDS RdapLookup

\* Two listings of one TLD, a damaged service, one without a URL, and .de
\* (which has a built-in fallback) listed or not.
Listed(labels, urls, whole) == [labels |-> labels, urls |-> urls, whole |-> whole]
ComNet  == Listed(<<"com", "net">>, <<"https://a/", "https://b/">>, TRUE)
ComDe   == Listed(<<"com", "de">>, <<"https://c/">>, TRUE)
NoURL   == Listed(<<"com">>, <<>>, TRUE)
Damaged == Listed(<<"com", "de">>, <<"https://d/">>, FALSE)
Files   == {<<>>, <<ComNet, ComDe, Damaged>>, <<ComDe, ComNet, NoURL>>, <<ComNet, NoURL>>}

Plain == [ldhName |-> "x.com", nameservers |-> <<>>, status |-> <<"ok">>, entities |-> <<>>,
          events |-> <<>>, links |-> <<>>]
RdapLink(h) == [rel |-> "related", type |-> "application/rdap+json", href |-> h]
Linked == [Plain EXCEPT !.links = <<RdapLink("https://registrar/")>>]

NoCard == [whole |-> FALSE, entries |-> <<>>]
Contact(handle, roles) == [handle |-> handle, roles |-> roles, card |-> NoCard]
RoleLists == {<<>>, <<"registrar">>, <<"registrant">>, <<"registrar", "registrant">>,
              <<"unlisted">>, <<"unlisted", "abuse">>}
Entities(handle, n) == BoundedSeq({Contact(handle, r) : r \in RoleLists}, n)
Statuses(n) == BoundedSeq({"ok", "active", "client renew prohibited", "made up"}, n)

E(prop, value, whole) == [prop |-> prop, value |-> value, label |-> value, whole |-> whole]
CardEntries == {E("fn", "Ann", TRUE), E("fn", "Bob", TRUE), E("fn", NotText, TRUE), E("fn", "Eve", FALSE),
                E("tel", "1", TRUE), E("tel", "", TRUE), E("tel", NotText, TRUE),
                E("email", "a@x", TRUE), E("email", "", TRUE), E("kind", "org", TRUE), E("adr", "Rd 1", TRUE)}
Cards == {[whole |-> w, entries |-> s] : w \in BOOLEAN, s \in BoundedSeq(CardEntries, 2)}

Links == BoundedSeq({RdapLink("https://registrar/"), RdapLink(""),
                     [RdapLink("https://page/") EXCEPT !.type = "text/html"],
                     [RdapLink("https://self/") EXCEPT !.rel = "self"]}, 2)
Rich == [Linked EXCEPT
    !.nameservers = <<[ldhName |-> "ns.x.com", status |-> <<"ok", "made up">>, addresses |-> <<"192.0.2.1">>,
                       links |-> <<RdapLink(""), RdapLink("https://ns/")>>]>>,
    !.events = <<[action |-> "expiration", date |-> "2030"], [action |-> "held", date |-> "2031"]>>]

MCRegistryDocs ==
    {Rich}
    \cup {[Linked EXCEPT !.status = s] : s \in Statuses(2)}
    \cup {[Linked EXCEPT !.entities = e] : e \in Entities("R", 1)}
    \cup {[Plain EXCEPT !.links = l] : l \in Links}
    \cup {[Plain EXCEPT !.entities = <<[Contact("R", <<"registrar">>) EXCEPT !.card = c]>>] : c \in Cards}
MCRegistrarDocs ==
    {[Plain EXCEPT !.status = s] : s \in Statuses(2)}
    \cup {[Plain EXCEPT !.status = <<"made up">>, !.entities = e] : e \in Entities("S", 2)}
=============================================================================
