---------------------------- MODULE MCAggregate ----------------------------
(* Instances of Aggregate for TLC. *)
EXTENDS Aggregate, TLC

\* In the order of the bytes; the capital comes first.
NameList == <<<<"Shop", "co">>, <<"a", "corp", "com">>, <<"api", "shop", "co">>,
              <<"b", "dev", "corp", "com">>, <<"corp", "com">>, <<"dev", "corp", "com">>,
              <<"shop", "co">>, <<"www", "Shop", "co">>, <<"www", "shop", "co">>>>
MCNameRank == [n \in ToSet(NameList) |-> CHOOSE k \in DOMAIN NameList : NameList[k] = n]

MCLowerLabel ==
    [l \in {"Shop", "shop", "co", "com", "www", "api", "a", "b", "corp", "dev", "Dev",
            "_dmarc", "*", "\\052", "@", ""} |->
       CASE l = "Shop" -> "shop" [] l = "Dev" -> "dev" [] OTHER -> l]

MCEscaped == {"\\052"}

shop == <<"shop", "co">>
Shop == <<"Shop", "co">>
www == <<"www", "shop", "co">>
corp == <<"corp", "com">>
Dot(name) == Append(name, "")

MCExcludeZones == {<<>>, <<"Dev", "corp", "com", "">>}

Yaml(name, port, date, subs) ==
    [Name |-> name, Port |-> port, ExpiryFallback |-> date, Subdomains |-> subs]

NoFile == [Err |-> TRUE, Domains |-> <<>>, Groups |-> <<>>]

\* Flat and grouped entries; a name twice, with one port omitted, with another
\* port, in another case, with its date on the first, the second or both.
StaticFiles ==
    {[Err |-> FALSE,
      Domains |-> <<Yaml(n, p, d, <<<<>>, <<"www">>>>), Yaml(<<>>, 0, 5, <<<<"www">>>>)>>,
      Groups |-> <<[Source |-> source, Domains |-> <<Yaml(shop, 443, c, <<>>),
                                                    Yaml(www, q, b, <<>>)>>]>>] :
       source \in {"", "mi.com.co"}, n \in {shop, Shop}, p \in {0, 8443}, q \in {0, 8443},
       d \in {NoDate, 5}, c \in {NoDate, 6}, b \in {NoDate, 7}}

Page(err, items, next) == [Err |-> err, items |-> items, NextPage |-> next]
Rec(type, fqdn, host) == [Type |-> type, Fqdn |-> fqdn, Host |-> host]

\* Three pages of domains, of which the first may skip the second; one domain has
\* two pages of records; any page may fail, and the last ones point at themselves or
\* back.
NameComAnswers ==
    {[credentials |-> credentials,
      domains |-> <<Page(e1, <<shop, <<>>>>, first), Page(e2, <<corp>>, next),
                    Page(FALSE, <<www>>, 2)>>,
      records |-> (shop :> <<Page(FALSE, <<Rec("A", <<>>, <<"@">>), Rec("MX", <<>>, <<"api">>),
                                            Rec("CNAME", Www, <<>>)>>, 2),
                             Page(r1, <<Rec("A", <<>>, <<"api">>)>>, 0)>>) @@
                  (corp :> <<Page(r2, <<Rec("AAAA", <<"*", "corp", "com">>, <<>>),
                                        Rec("A", <<>>, <<"a">>)>>, 1)>>) @@
                  (www :> <<Page(TRUE, <<>>, 0)>>)] :
       credentials \in BOOLEAN, e1 \in BOOLEAN, e2 \in BOOLEAN, first \in {2, 3},
       next \in {2, 3},
       r1 \in BOOLEAN, r2 \in BOOLEAN, Www \in {Dot(www), <<"_dmarc", "shop", "co">>}}

Zone(name, private, id, records) ==
    [Name |-> name, PrivateZone |-> private, HasId |-> id, records |-> records]
Set(name) == [Type |-> "A", Name |-> Dot(name)]

\* A registered domain; a zone with two pages of records, some of them in an
\* excluded zone; a private zone; the excluded zone itself; any page may fail.
Route53Answers ==
    {[config |-> config,
      registered |-> <<Page(e1, <<corp, <<"dev", "corp", "com">>>>, 0), Page(e2, <<shop>>, 0)>>,
      zones |-> <<Page(z1, <<Zone(Dot(corp), FALSE, id,
                                  <<Page(r1, <<Set(<<"a", "corp", "com">>),
                                               Set(<<"b", "dev", "corp", "com">>),
                                               Set(<<"\\052", "corp", "com">>)>>, 0),
                                    Page(r2, <<Set(www)>>, 0)>>),
                             Zone(Dot(www), TRUE, TRUE, <<>>)>>, 0),
                  Page(z2, <<Zone(<<"dev", "corp", "com", "">>, FALSE, TRUE,
                                  <<Page(FALSE, <<Set(<<"api", "shop", "co">>)>>, 0)>>)>>, 0)>>] :
       config \in BOOLEAN, e1 \in BOOLEAN, e2 \in BOOLEAN, z1 \in BOOLEAN, z2 \in BOOLEAN,
       id \in BOOLEAN, r1 \in BOOLEAN, r2 \in BOOLEAN}

World(f, n, r) == ("static" :> f) @@ ("namecom" :> n) @@ ("route53" :> r)

Plain(S) == CHOOSE w \in S : TRUE

\* Every file, every answer of Name.com and every answer of Route53, with the
\* other sources answering in one way, or failing.
MCWorlds ==
    LET n == Plain({w \in NameComAnswers :
                      w.credentials /\ ~w.domains[1].Err /\ ~w.domains[2].Err})
        noN == Plain({w \in NameComAnswers : ~w.credentials})
        r == Plain({w \in Route53Answers :
                      w.config /\ ~w.registered[1].Err /\ ~w.zones[1].Err})
        noR == Plain({w \in Route53Answers : ~w.config})
    IN  {World(f, n, r) : f \in StaticFiles}
        \cup {World(NoFile, w, x) : w \in NameComAnswers, x \in {r, noR}}
        \cup {World(NoFile, x, w) : w \in Route53Answers, x \in {n, noN}}
=============================================================================
