------------------------------ MODULE RdapData ------------------------------
(***************************************************************************)
(* What internal/rdap makes of the JSON it is sent: parseDomain and        *)
(* parseVCard, findRelatedRDAPLink and mergeRegistrarData of client.go,    *)
(* and the table NewBootstrap builds and Resolve consults (bootstrap.go).  *)
(*                                                                         *)
(* A document is the record a body decodes to; "malformed" is a body that  *)
(* does not decode.  "" is Go's empty string, and NotText a JSON value     *)
(* that is not a string.                                                   *)
(***************************************************************************)
EXTENDS Naturals, Sequences, SequencesExt, FiniteSets

NotText == "<not text>"
Unknown == "UNKNOWN"

Image(s, op(_)) == [k \in DOMAIN s |-> op(s[k])]

-----------------------------------------------------------------------------
(* The conversion maps.  Roles, events and kinds are spelled one way each; *)
(* a status has several spellings, and a name outside a map reads as the   *)
(* zero value of its enum.                                                 *)

Roles == {"registrant", "technical", "administrative", "abuse", "noc", "billing",
          "registrar", "reseller", "sponsor", "proxy", "notifications",
          "nocDefaultAbuseContact", "routing"}
EventActions == {"registration", "reregistration", "last changed", "expiration", "deletion",
          "reinstantiation", "transfer", "locked", "unlocked", "last update of RDAP database",
          "registrar expiration", "enum validation expiration"}
EntityKinds == {"individual", "group", "org", "location", "application"}

Qualified(plain, c, s, cc, sc) == {plain, c, s, cc, sc}
Spellings ==
    [s \in {"inactive", "validated", "proxy", "private", "removed", "obscured", "associated",
            "locked"} |-> {s}]
    @@ [active |-> {"active", "ok"},
        pendingCreate |-> {"pending create", "pendingCreate"},
        pendingRenew |-> {"pending renew", "pendingRenew"},
        pendingTransfer |-> {"pending transfer", "pendingTransfer"},
        pendingUpdate |-> {"pending update", "pendingUpdate"},
        pendingDelete |-> {"pending delete", "pendingDelete"},
        renewProhibited |-> Qualified("renew prohibited", "client renew prohibited",
            "server renew prohibited", "clientRenewProhibited", "serverRenewProhibited"),
        updateProhibited |-> Qualified("update prohibited", "client update prohibited",
            "server update prohibited", "clientUpdateProhibited", "serverUpdateProhibited"),
        transferProhibited |-> Qualified("transfer prohibited", "client transfer prohibited",
            "server transfer prohibited", "clientTransferProhibited", "serverTransferProhibited"),
        deleteProhibited |-> Qualified("delete prohibited", "client delete prohibited",
            "server delete prohibited", "clientDeleteProhibited", "serverDeleteProhibited"),
        recoverProhibited |-> {"server recover prohibited", "client recover prohibited"}]

RoleOf(s)   == IF s \in Roles THEN s ELSE Unknown
ActionOf(s) == IF s \in EventActions THEN s ELSE Unknown
KindOf(s)   == IF s \in EntityKinds THEN s ELSE Unknown
StatusOf(s) ==
    IF \E v \in DOMAIN Spellings : s \in Spellings[v]
    THEN CHOOSE v \in DOMAIN Spellings : s \in Spellings[v]
    ELSE Unknown

-----------------------------------------------------------------------------
(* parseVCard.  A card is a sequence of entries; an entry is whole when it *)
(* is an array of four or more with a property name first.  A card that is *)
(* absent or damaged gives the empty result, a damaged entry is passed     *)
(* over.                                                                   *)

NoContact == [fn |-> "", kind |-> "", org |-> "", address |-> "", phone |-> "", emails |-> <<>>]

Text(v, old) == IF v = NotText THEN old ELSE v

Entry_damageEnds(c, e) == IF e.whole THEN [c EXCEPT !.fn = e.value] ELSE NoContact
Entry(c, e) ==
    IF ~e.whole THEN c
    ELSE CASE e.prop \in {"fn", "kind", "org"} -> [c EXCEPT ![e.prop] = Text(e.value, @)]
           [] e.prop = "tel"   -> IF c.phone = "" THEN [c EXCEPT !.phone = Text(e.value, @)] ELSE c
           [] e.prop = "email" -> IF e.value \in {NotText, ""} THEN c
                                  ELSE [c EXCEPT !.emails = Append(@, e.value)]
           [] e.prop = "adr"   -> IF e.label \in {NotText, ""} THEN c
                                  ELSE [c EXCEPT !.address = e.label]
           [] OTHER            -> c

parseVCard(card) ==
    IF card.whole THEN FoldLeft(Entry, NoContact, card.entries) ELSE NoContact

\* An entity of the document as parseDomain and mergeRegistrarData convert it.
Entity(e) ==
    LET c == parseVCard(e.card)
    IN  [handle |-> e.handle, roles |-> Image(e.roles, RoleOf),
         contact |-> [c EXCEPT !.kind = KindOf(@)]]

-----------------------------------------------------------------------------
(* parseDomain.  Statuses are converted first and repeats dropped, so two  *)
(* spellings of one status are one; the unknown status is kept once.       *)

AddStatus(seq, s) == IF Contains(seq, StatusOf(s)) THEN seq ELSE Append(seq, StatusOf(s))

Href(l) == l.href
Hrefs(links) == Image(SelectSeq(links, LAMBDA l : l.href # ""), Href)

Nameserver(n) ==
    [ldhName |-> n.ldhName, status |-> Image(n.status, StatusOf), links |-> Hrefs(n.links),
     addresses |-> n.addresses]  \* the empty list where the document names none

Event(e) == [e EXCEPT !.action = ActionOf(@)]

parseDomain(doc, rdapServer) ==
    [ldhName     |-> doc.ldhName,      \* with the other names and the secureDNS data, verbatim
     nameservers |-> Image(doc.nameservers, Nameserver),
     status      |-> FoldLeft(AddStatus, <<>>, doc.status),
     entities    |-> Image(doc.entities, Entity),
     events      |-> Image(doc.events, Event),
     links       |-> Hrefs(doc.links),
     rdapServer  |-> rdapServer]

-----------------------------------------------------------------------------
(* findRelatedRDAPLink and mergeRegistrarData.                             *)

findRelatedRDAPLink(doc) ==
    LET k == SelectInSeq(doc.links, LAMBDA l : /\ l.rel = "related" /\ l.href # ""
                                               /\ l.type = "application/rdap+json")
    IN  IF k = 0 THEN "" ELSE doc.links[k].href

RolesIn(entities) == UNION {ToSet(entities[k].roles) : k \in DOMAIN entities}

\* An entity is added whole when one of its roles is known and new.
AddEntity_unknownToo(entities, e) ==
    IF ToSet(Entity(e).roles) \subseteq RolesIn(entities) THEN entities
    ELSE Append(entities, Entity(e))
AddEntity(entities, e) ==
    IF ToSet(Entity(e).roles) \subseteq RolesIn(entities) \cup {Unknown} THEN entities
    ELSE Append(entities, Entity(e))

AddKnownStatus(seq, s) == IF StatusOf(s) = Unknown THEN seq ELSE AddStatus(seq, s)

mergeRegistrarData(domain, doc) ==
    [domain EXCEPT !.entities = FoldLeft(AddEntity, @, doc.entities),
                   !.status = FoldLeft(AddKnownStatus, @, doc.status)]

-----------------------------------------------------------------------------
(* NewBootstrap reads a list of services, each a list of TLDs and one of   *)
(* URLs; one that is short, does not decode or names no URL is passed      *)
(* over, and a TLD listed again takes the later URL.  TLDs are in lower    *)
(* case and a URL stands for itself with its trailing slash.               *)

Usable(svc) == svc.whole /\ svc.urls # <<>>

AddService(tlds, svc) ==
    IF Usable(svc)
    THEN [t \in ToSet(svc.labels) \cup DOMAIN tlds |->
             IF t \in ToSet(svc.labels) THEN svc.urls[1] ELSE tlds[t]]
    ELSE tlds

NewBootstrap(services) == FoldLeft(AddService, [t \in {} |-> ""], services)

fallbackServers == [de |-> "https://rdap.denic.de/"]

\* Resolve: "" where it returns an error.
Resolve_fallbackFirst(tlds, tld) ==
    IF tld \in DOMAIN fallbackServers THEN fallbackServers[tld]
    ELSE IF tld \in DOMAIN tlds THEN tlds[tld] ELSE ""
Resolve(tlds, tld) ==
    CASE tld \in DOMAIN tlds            -> tlds[tld]
      [] tld \in DOMAIN fallbackServers
         /\ tld \notin DOMAIN tlds      -> fallbackServers[tld]
      [] OTHER                          -> ""
=============================================================================
