----------------------------- MODULE RdapLookup ------------------------------
(***************************************************************************)
(* One LookupDomain RPC of the RDAP server: internal/rdap/server.go and    *)
(* LookupDomain and fetchRaw of client.go.  The registry is asked first    *)
(* and decides the call; a link in its reply sends the client on to the    *)
(* registrar, whose data are merged when they can be had.                  *)
(*                                                                         *)
(* An HTTP exchange is a request that is answered or fails and a body that *)
(* is read or fails to be.  Servers are external: each step may fail or    *)
(* take for ever.  The client has no timeout of its own (NewClient), so    *)
(* only the end of the RPC's context bounds the wait.                      *)
(***************************************************************************)
EXTENDS RdapData, Filter

CONSTANTS
    BootstrapFiles, \* the lists of services IANA may publish
    TLDs,           \* top-level domains asked for
    RegistryDocs,   \* documents a registry may send
    RegistrarDocs   \* documents a registrar may send

Service   == [labels : Seq(STRING), urls : Seq(STRING), whole : BOOLEAN]
CardEntry == [prop : STRING, value : STRING, label : STRING, whole : BOOLEAN]
Card      == [whole : BOOLEAN, entries : Seq(CardEntry)]
Object    == [handle : STRING, roles : Seq(STRING), card : Card]

\* What a body that decodes has; what names and addresses say is left open.
ASSUME RdapAssumption ==
    /\ BootstrapFiles \subseteq Seq(Service)
    /\ \A d \in RegistryDocs \cup RegistrarDocs :
           d.status \in Seq(STRING) /\ d.entities \in Seq(Object)

VARIABLES
    services,  \* the bootstrap file the process was started with
    named,     \* the Domain asked for has a hostname
    tld,       \* its TLD; "" of the root, and of a Domain that says nothing
    pc,        \* where the handler is
    url,       \* the server being asked
    ctx,       \* "live" or "ended"
    body,      \* <<>>, or <<document>> as read from the registry
    domain,    \* <<>>, or <<RDAPDomain>> as built so far
    registrar, \* <<>>, or <<document>> as read from the registrar
    status     \* of the RPC: "", "OK", "InvalidArgument" or "Unavailable"

input == <<services, named, tld>>
vars == <<input, pc, url, ctx, body, domain, registrar, status>>

Init ==
    /\ services \in BootstrapFiles /\ named \in BOOLEAN /\ tld \in TLDs \cup {""}
    /\ pc = "start" /\ url = "" /\ ctx = "live"
    /\ body = <<>> /\ domain = <<>> /\ registrar = <<>>
    /\ status = ""

-----------------------------------------------------------------------------
Finish(s) == pc' = "done" /\ status' = s

Fail == Finish("Unavailable")

\* Without a hostname, whatever labels and TLD the Domain has.
Refuse ==
    /\ pc = "start" /\ ~named
    /\ Finish("InvalidArgument")
    /\ UNCHANGED <<input, url, ctx, body, domain, registrar>>

Route ==
    /\ pc = "start" /\ named
    /\ url' = Resolve(NewBootstrap(services), tld)
    /\ IF url' = "" THEN Fail ELSE pc' = "get" /\ UNCHANGED status
    /\ UNCHANGED <<input, ctx, body, domain, registrar>>

\* http.Client.Do with the registry: it fails by itself or with the context.
Get ==
    /\ pc = "get"
    /\ \/ Fail
       \/ ctx = "live" /\ pc' = "read" /\ UNCHANGED status
    /\ UNCHANGED <<input, url, ctx, body, domain, registrar>>

\* ReadAll fails, the status is not 200 or the body does not decode; or the
\* document is there and parseDomain builds the domain from it.
Read ==
    /\ pc = "read"
    /\ \/ Fail /\ UNCHANGED <<body, domain>>
       \/ \E d \in RegistryDocs :
              /\ body' = <<d>> /\ domain' = <<parseDomain(d, url)>>
              /\ pc' = "link" /\ UNCHANGED status
    /\ UNCHANGED <<input, url, ctx, registrar>>

FollowLink ==
    /\ pc = "link"
    /\ url' = findRelatedRDAPLink(body[1])
    /\ pc' = IF url' = "" THEN "return" ELSE "rget"
    /\ UNCHANGED <<input, ctx, body, domain, registrar, status>>

\* fetchRaw: every failure comes back as an error that LookupDomain drops.
RegistrarFails_fatal == Fail
RegistrarFails == pc' = "return" /\ UNCHANGED status

RegistrarGet_retries ==
    /\ pc = "rget"
    /\ pc' \in (IF ctx = "live" THEN {"rget", "rread"} ELSE {"rget"})
    /\ UNCHANGED <<input, url, ctx, body, domain, registrar, status>>
RegistrarGet ==
    /\ pc = "rget"
    /\ \/ RegistrarFails
       \/ ctx = "live" /\ pc' = "rread" /\ UNCHANGED status
    /\ UNCHANGED <<input, url, ctx, body, domain, registrar>>

RegistrarRead ==
    /\ pc = "rread"
    /\ \/ RegistrarFails /\ UNCHANGED <<domain, registrar>>
       \/ \E r \in RegistrarDocs :
              /\ registrar' = <<r>>
              /\ domain' = <<mergeRegistrarData(domain[1], r)>>
              /\ pc' = "return" /\ UNCHANGED status
    /\ UNCHANGED <<input, url, ctx, body>>

Return ==
    /\ pc = "return"
    /\ Finish("OK")
    /\ UNCHANGED <<input, url, ctx, body, domain, registrar>>

LookupDomain ==
    Refuse \/ Route \/ Get \/ Read \/ FollowLink \/ RegistrarGet \/ RegistrarRead \/ Return

\* The client's deadline passes, or it goes away.
ContextEnds ==
    /\ ctx = "live" /\ pc # "done"
    /\ ctx' = "ended"
    /\ UNCHANGED <<input, pc, url, body, domain, registrar, status>>

Done == pc = "done" /\ UNCHANGED vars

Next == LookupDomain \/ ContextEnds \/ Done

\* A server may keep silent for ever, and the context need not end; once it
\* has, Do and ReadAll return.  The other steps are the handler's own.
Waiting == pc \in {"get", "read", "rget", "rread"}
Fairness == WF_vars(LookupDomain /\ (Waiting => ctx = "ended"))

Spec == Init /\ [][Next]_vars /\ Fairness

-----------------------------------------------------------------------------
Domain == domain[1]
Base   == parseDomain(body[1], Domain.rdapServer)
Added  == {k \in DOMAIN Domain.entities : k > Len(Base.entities)}

(* The call asks the server the bootstrap file lists last for the TLD, a   *)
(* built-in fallback only for a TLD the file does not list, and fails when *)
(* there is neither; services that are damaged or name no URL count for    *)
(* nothing.  (NewBootstrap and Resolve, bootstrap.go.)                     *)
Routed ==
    LET listing == {k \in DOMAIN services : /\ Usable(services[k])
                                            /\ Contains(services[k].labels, tld)}
        server == CASE listing # {} -> services[CHOOSE k \in listing :
                                                   \A l \in listing : l <= k].urls[1]
                    [] listing = {} /\ tld = "de" -> "https://rdap.denic.de/"
                    [] OTHER -> ""
    IN  /\ pc \in {"get", "read"} => url = server
        /\ domain # <<>> => Domain.rdapServer = server /\ server # ""
        /\ pc = "done" /\ named /\ server = "" => status = "Unavailable" /\ body = <<>>

(* Merging only adds: what the registrar sends changes nothing the         *)
(* registry said, an entity is added only if it brings a role nobody had,  *)
(* unknown roles not counting, all such entities are added with the roles  *)
(* and contact they were sent with, and no status appears twice however it *)
(* is spelled.  (mergeRegistrarData and parseDomain, client.go.)           *)
MergeAdds ==
    domain # <<>> =>
        /\ IsPrefix(Base.entities, Domain.entities) /\ IsPrefix(Base.status, Domain.status)
        /\ [Domain EXCEPT !.entities = Base.entities, !.status = Base.status] = Base
        /\ Cardinality(ToSet(Domain.status)) = Len(Domain.status)
        /\ \A k \in Added :
               ~(ToSet(Domain.entities[k].roles)
                    \subseteq RolesIn(SubSeq(Domain.entities, 1, k - 1)) \cup {Unknown})
        /\ registrar # <<>> =>
               LET sent == Image(registrar[1].entities, Entity)
                   known == RolesIn(sent) \ {Unknown}
               IN  /\ known \subseteq RolesIn(Domain.entities)
                   /\ \A k \in Added : Contains(sent, Domain.entities[k])
                   /\ \A s \in ToSet(registrar[1].status) :
                          StatusOf(s) # Unknown => Contains(Domain.status, StatusOf(s))

(* What a contact says is what its card says: the last name given as text, *)
(* the first telephone number that is one, every address of mail in order; *)
(* damaged entries and values that are not text take nothing away.         *)
(* (parseVCard, client.go.)                                                *)
ContactsFaithful ==
    body # <<>> => \A k \in DOMAIN body[1].entities :
        LET card == body[1].entities[k].card
            c    == Domain.entities[k].contact
            kept(K)  == IF card.whole THEN Only(card.entries, K) ELSE <<>>
            given(p) == {e \in ToSet(card.entries) : e.whole /\ e.prop = p /\ e.value # NotText}
            full(p)  == {e \in given(p) : e.value # ""}
        IN  /\ c.fn = (IF kept(given("fn")) = <<>> THEN "" ELSE Last(kept(given("fn"))).value)
            /\ c.phone = (IF kept(full("tel")) = <<>> THEN "" ELSE Head(kept(full("tel"))).value)
            /\ c.emails = Image(kept(full("email")), LAMBDA e : e.value)

(* Once the registry's data are there the call answers with them, as they  *)
(* are or with the registrar's added: no failure of the registrar becomes  *)
(* a failure of the call.  (LookupDomain's soft failure, client.go.)       *)
ExtendsBase(b, a) == IsPrefix(b.entities, a.entities) /\ IsPrefix(b.status, a.status)
Promise == INSTANCE EnrichedLookup WITH
    base <- IF body = <<>> THEN <<>> ELSE <<Base>>,
    answer <- CASE status = ""   -> <<>>
                [] status = "OK" -> <<"ok", Domain>>
                [] OTHER         -> <<"error">>,
    Extends <- ExtendsBase
ImplementsEnrichedLookup == Promise!Spec

(* A call returns if its context ends, whatever the two servers leave      *)
(* unanswered, and without that if every wait for them does.  Nothing else *)
(* bounds the wait: NewClient sets no timeout, and neither does server.go. *)
LookupReturns == <>(ctx = "ended") \/ []<>~Waiting => <>(pc = "done")
=============================================================================
