------------------------------ MODULE Routing ------------------------------
(***************************************************************************)
(* Which channel a destination goes through: normalisation and storage of  *)
(* the rules (webutil.rs, store.rs), the order build_mihomo_config gives   *)
(* them (manager.rs), what the entries send there (provider, snippet, PAC, *)
(* routes of the TUN entry), and what a backup brings back on another      *)
(* machine (config_export, config_import).                                 *)
(*                                                                         *)
(* mihomo takes the first line that matches.  A connection is to a host    *)
(* name or to an address, never both: domain lines match the former, and   *)
(* with no-resolve address lines only the latter.                          *)
(*                                                                         *)
(* A host name is the sequence of its labels from the right, so that a     *)
(* domain suffix is a prefix of the sequence; labels are numbers.  So is   *)
(* the text of an address where the code takes it for a host name.         *)
(*                                                                         *)
(* The tables may come from an earlier version, with patterns stored as    *)
(* they were typed: an address without a mask, a domain behind wildcards,  *)
(* or something no output can use.                                         *)
(***************************************************************************)
EXTENDS Integers, Sequences, SequencesExt, FiniteSets

CONSTANTS
    Channels, \* channel ids: numbers, as listings are ordered by id
    Names,    \* names a channel can have
    Width,    \* bits of an address
    Hosts,    \* host names
    Unicode,  \* labels with characters outside ASCII
    Dotted,   \* v4 address -> its text as a host name
    Group,    \* v6 address -> the first group of its text, <<>> for ::
    Entries,  \* what users may enter: sequences of texts
    Legacy,   \* databases an earlier version may have left
    MaxRows   \* bound on the rules in the database

ASSUME ChannelsAssumption == Channels \subseteq Nat
ASSUME BoundsAssumption == Width \in Nat /\ MaxRows \in Nat
ASSUME HostsAssumption  == \A host \in Hosts : host \in Seq(Int) /\ host # <<>>

VARIABLES
    name,   \* per channel in the database: its name
    rows,   \* table rules in the order of their ids
    domains, \* table domains of earlier versions, as the rules init makes of it
    file,   \* the exported document
    moved,  \* the file has been imported on another machine
    origin, \* name and rows at the time of the export (history)
    lossy   \* the export could not read some channel's rules (history)

vars == <<name, rows, domains, file, moved, origin, lossy>>

-----------------------------------------------------------------------------
(* Sequences by the order of their elements, so that loops, sorts and       *)
(* selections need no recursion: what comes first has nothing before it.    *)

InOrder(S, before) ==
    [k \in 1..Cardinality(S) |->
        CHOOSE x \in S : Cardinality({y \in S : <<y, x>> \in before}) = k - 1]

ByAge(S) == InOrder(S, {p \in S \X S : p[1] < p[2]})

(* The elements of s at the positions in S, in the order of s.              *)
Chosen(s, S) == [k \in 1..Cardinality(S) |-> s[ByAge(S)[k]]]

-----------------------------------------------------------------------------
(* Destinations, texts and patterns.                                        *)

Bits      == 0..(2 ^ Width - 1)

(* Texts: an address with or without a mask, a v6 zone; a host name behind  *)
(* so many wildcard labels, possibly in capitals or as a URL; anything with *)
(* a comma, a blank or a quote in it.                                       *)
Masks     == -1..(Width + 1)
AddrText  == [form : {"addr"}, fam : {4}, bits : Bits,
              mask : Masks, zone : {FALSE}]
             \cup [form : {"addr"}, fam : {6}, bits : Bits,
                   mask : Masks, zone : BOOLEAN]
HostText  == [form : {"host"}, host : Hosts, wild : 0..3]
JunkText  == [form : {"junk"}]
NoMask    == -1

ASSUME EntriesAssumption ==
    \A entry \in Entries : entry \in Seq(AddrText \cup HostText \cup JunkText)

(* A name that reads as a v4 address is one.                                *)
ASSUME TextAssumption ==
    /\ Dotted \in [Bits -> (Seq(Int) \ {<<>>}) \ Hosts]
    /\ Group \in [Bits -> Seq(Int)]

(* Destinations carry the host the browser shows to a PAC script; that of a *)
(* v6 address has no dots and is no domain's.                               *)
AddrDest(fam, bits) == [fam |-> fam, bits |-> bits,
                        host |-> IF fam = 4 THEN Dotted[bits] ELSE <<>>]
HostDest(host)      == [fam |-> 0, bits |-> 0, host |-> host]
Addresses == {AddrDest(fam, bits) : fam \in {4, 6}, bits \in Bits}
Dests     == Addresses \cup {HostDest(h) : h \in Hosts}

Nothing   == [kind |-> "none"]
Malformed == [kind |-> "malformed"]
Ip(fam, bits, len)  == [kind |-> "ip", fam |-> fam, bits |-> bits, len |-> len]
Domain(host, wild)  == [kind |-> "domain", host |-> host, wild |-> wild]

(* An address text that went through the domain branch: its mask and what   *)
(* follows a colon are cut off.                                             *)
AddrAsHost(t) == IF t.fam = 4 THEN Dotted[t.bits] ELSE Group[t.bits]

-----------------------------------------------------------------------------
(* webutil.rs.                                                              *)

NormIp(t) ==
    IF t.form # "addr" \/ t.zone \/ t.mask > Width THEN Nothing
    ELSE Ip(t.fam, t.bits, IF t.mask = NoMask THEN Width ELSE t.mask)

(* One wildcard label is taken off, not more.                               *)
NormDomain(t) ==
    CASE t.form = "host" -> Domain(t.host, IF t.wild > 0 THEN t.wild - 1 ELSE 0)
      [] t.form = "addr" -> IF AddrAsHost(t) = <<>> THEN Nothing
                            ELSE Domain(AddrAsHost(t), 0)
      [] OTHER           -> Nothing

Classify(t) == IF t.form = "addr" THEN NormIp(t) ELSE NormDomain(t)

(* What an entered text becomes when its kind is given or left open.        *)
Planned(t, forced) ==
    CASE forced = "domain" -> NormDomain(t)
      [] forced = "ip"     -> IF Classify(t).kind = "ip" THEN Classify(t) ELSE Nothing
      [] OTHER             -> Classify(t)

(* The length of a stored network; that of a bare address is full.          *)
Prefix(pat) == IF pat.len = NoMask THEN Width ELSE pat.len

(* What is put out of a stored pattern: one more wildcard is taken off, a   *)
(* bare address gets its mask; of a malformed one nothing.                  *)
NormalizeStored(pat) ==
    CASE pat.kind = "domain" ->
           Domain(pat.host, IF pat.wild > 0 THEN pat.wild - 1 ELSE 0)
      [] pat.kind = "ip" -> Ip(pat.fam, pat.bits, Prefix(pat))
      [] OTHER -> Nothing

Row(c, pat, on) == [ch |-> c, pat |-> pat, on |-> on]

(* plan_rules: what is new for the channel, in the order it was entered.    *)
PlanRules(c, texts, forced) ==
    LET known == {r.pat : r \in {x \in ToSet(rows) : x.ch = c}}
        pat   == [i \in DOMAIN texts |-> Planned(texts[i], forced)]
        new   == {i \in DOMAIN texts :
                    /\ pat[i] # Nothing /\ pat[i] \notin known
                    /\ \A j \in 1..(i - 1) : pat[j] # pat[i]}
    IN  Chosen([i \in DOMAIN texts |-> Row(c, pat[i], TRUE)], new)

-----------------------------------------------------------------------------
(* manager.rs: build_mihomo_config.                                         *)

Line(r) == [ch |-> r.ch, pat |-> NormalizeStored(r.pat)]

(* Fault: networks in the order of insertion, as domains.                   *)
AheadByAge(rs, i, j) ==
    \/ rs[i].pat.kind = "domain" /\ rs[j].pat.kind = "ip"
    \/ (rs[i].pat.kind = rs[j].pat.kind /\ i < j)

(* Domains come first, in the order of insertion; then the networks, by a   *)
(* stable descending sort on the length of the prefix.                      *)
Ahead(rs, i, j) ==
    LET p == rs[i].pat
        q == rs[j].pat
    IN  \/ p.kind = "domain" /\ (q.kind = "ip" \/ i < j)
        \/ /\ p.kind = "ip" /\ q.kind = "ip"
           /\ Prefix(p) > Prefix(q) \/ (Prefix(p) = Prefix(q) /\ i < j)

(* The rules that make a line: enabled, and not malformed.                  *)
Written(rs) ==
    {i \in DOMAIN rs : rs[i].on /\ NormalizeStored(rs[i].pat) # Nothing}

BuildRules(rs) ==
    LET on    == Written(rs)
        order == InOrder(on, {p \in on \X on : Ahead(rs, p[1], p[2])})
    IN  [k \in 1..Cardinality(on) |-> Line(rs[order[k]])]

(* A wildcard that is left in a line keeps it from matching anything.       *)
InSuffix(pat, dest) == pat.wild = 0 /\ IsPrefix(pat.host, dest.host)

InNet(pat, a) ==
    /\ pat.fam = a.fam
    /\ LET size == 2 ^ (Width - pat.len)
       IN  a.bits \div size = pat.bits \div size

(* mihomo on a connection to an address or to a host name.                  *)
Matches(pat, dest) ==
    \/ pat.kind = "ip" /\ InNet(pat, dest)
    \/ pat.kind = "domain" /\ dest.fam = 0 /\ InSuffix(pat, dest)

Direct == -1

Route(lines, dest) ==
    LET hits == {i \in DOMAIN lines : Matches(lines[i].pat, dest)}
    IN  IF hits = {} THEN Direct
        ELSE lines[CHOOSE i \in hits : \A j \in hits : i <= j].ch

-----------------------------------------------------------------------------
(* What the entries send to mihomo.                                         *)

Enabled(rs) == {r \in ToSet(rs) : r.on}

(* Provider and snippet: every enabled pattern, in any order.               *)
Provider(rs) == {NormalizeStored(r.pat) : r \in Enabled(rs)} \ {Nothing}
ByProvider(rs, dest) == \E pat \in Provider(rs) : Matches(pat, dest)

(* The PAC script compares the host of the URL, be it a name or the text of *)
(* an address, with the domains, then an address with the v4 networks.  The *)
(* browser writes a host in ASCII: a domain that is not is no part of it.   *)
PacText(rs) == {pat \in Provider(rs) : pat.kind = "domain" \/ pat.fam = 4}
Ascii(pat)  == ToSet(pat.host) \cap Unicode = {}
ByPac(rs, dest) ==
    \E pat \in PacText(rs) :
        IF pat.kind = "domain"
          THEN Ascii(pat) /\ InSuffix(pat, dest) ELSE InNet(pat, dest)

(* Fault: the routes of disabled rules stay.                                *)
RouteSetsOfAll(rs) ==
    {r.pat : r \in {x \in ToSet(rs) : x.pat.kind = "ip" /\ x.pat.len # NoMask}}

(* The kernel routes of the TUN entry have a filter of their own: patterns  *)
(* as they are stored, if they read as a network, which takes a mask.       *)
RouteSets(rs) ==
    {r.pat : r \in {x \in Enabled(rs) : x.pat.kind = "ip" /\ x.pat.len # NoMask}}
ByTun(rs, dest) == \E pat \in RouteSets(rs) : Matches(pat, dest)

-----------------------------------------------------------------------------
(* Handlers.  Each is one transaction on the database.                      *)

InDb == DOMAIN name
Home == ~moved /\ file = <<>>

(* init moves the domains of earlier versions to a table of rules that is   *)
(* empty; every start asks anew.                                            *)
Migrated(rs, old) == IF rs = <<>> THEN old ELSE rs

Init ==
    /\ \E db \in Legacy : /\ name = db.name /\ domains = db.domains
                           /\ rows = Migrated(db.rows, db.domains)
    /\ file = <<>> /\ moved = FALSE
    /\ origin = [name |-> <<>>, rows |-> <<>>] /\ lossy = FALSE

Restart ==
    /\ Home
    /\ rows' = Migrated(rows, domains)
    /\ UNCHANGED <<name, domains, file, moved, origin, lossy>>

(* create and update do not ask whether the name is taken.                  *)
CreateChannel(c, n) ==
    /\ Home /\ c \notin InDb
    /\ name' = [x \in InDb \cup {c} |-> IF x = c THEN n ELSE name[x]]
    /\ UNCHANGED <<rows, domains, file, moved, origin, lossy>>

(* Fault: the newest rules are listed first.                                *)
AddRulesInFront(c, texts, forced) ==
    /\ Home /\ c \in InDb
    /\ rows' = PlanRules(c, texts, forced) \o rows
    /\ Len(rows') <= MaxRows
    /\ UNCHANGED <<name, domains, file, moved, origin, lossy>>

AddRules(c, texts, forced) ==
    /\ Home /\ c \in InDb
    /\ rows' = rows \o PlanRules(c, texts, forced)
    /\ Len(rows') <= MaxRows
    /\ UNCHANGED <<name, domains, file, moved, origin, lossy>>

DelRule(i) ==
    /\ Home
    /\ rows' = Chosen(rows, DOMAIN rows \ {i})
    /\ UNCHANGED <<name, domains, file, moved, origin, lossy>>

(* One rule or several; an id that is gone undoes all.                      *)
SetRulesEnabled(ids, on) ==
    /\ Home /\ ids # {}
    /\ rows' = [i \in DOMAIN rows |->
                  IF i \in ids THEN [rows[i] EXCEPT !.on = on] ELSE rows[i]]
    /\ UNCHANGED <<name, domains, file, moved, origin, lossy>>

DeleteChannel(c) ==
    /\ Home /\ c \in InDb
    /\ name' = [x \in InDb \ {c} |-> name[x]]
    /\ rows' = Chosen(rows, {i \in DOMAIN rows : rows[i].ch # c})
    /\ domains' = Chosen(domains, {i \in DOMAIN domains : domains[i].ch # c})
    /\ UNCHANGED <<file, moved, origin, lossy>>

RulesOf(rs, c) == Chosen(rs, {i \in DOMAIN rs : rs[i].ch = c})

(* config_export: channels by id, each with its rules; rules that cannot be *)
(* read are an empty list.                                                  *)
Export(unread) ==
    LET ids == ByAge(InDb)
    IN  /\ Home /\ InDb # {}
        /\ file' = [i \in DOMAIN ids |->
               [name  |-> name[ids[i]],
                rules |-> IF ids[i] \in unread THEN <<>>
                          ELSE RulesOf(rows, ids[i])]]
        /\ origin' = [name |-> name, rows |-> rows]
        /\ lossy' = (\E r \in ToSet(rows) : r.ch \in unread)
        /\ UNCHANGED <<name, rows, domains, moved>>

(* Fault: "enabled" of the document is not looked at.                       *)
ImportRuleOn(c, r) == Row(c, NormalizeStored(r.pat), TRUE)

ImportRule(c, r) == Row(c, NormalizeStored(r.pat), r.on)

Sound(rs) == {j \in DOMAIN rs : NormalizeStored(rs[j].pat) # Nothing}

(* config_import, the document taken to a fresh installation: an entry      *)
(* whose name is taken, by an earlier entry, is skipped; the others get ids *)
(* of their own, drawn at random, and their rules one after the other, the  *)
(* malformed ones left out.                                                 *)
Import(id) ==
    LET new   == {i \in DOMAIN file : \A j \in 1..(i - 1) : file[j].name # file[i].name}
        all   == UNION {{i} \X Sound(file[i].rules) : i \in new}
        order == InOrder(all, {p \in all \X all :
                    \/ p[1][1] < p[2][1]
                    \/ p[1][1] = p[2][1] /\ p[1][2] < p[2][2]})
    IN  /\ ~moved /\ file # <<>> /\ moved' = TRUE /\ domains' = <<>>
        /\ \A i, j \in DOMAIN file : id[i] = id[j] => i = j
        /\ name' = [c \in {id[i] : i \in new} |->
                      file[CHOOSE i \in new : id[i] = c].name]
        /\ rows' = [k \in 1..Cardinality(all) |->
                      LET at == order[k]
                      IN  ImportRule(id[at[1]], file[at[1]].rules[at[2]])]
        /\ UNCHANGED <<file, origin, lossy>>

Next ==
    \/ Restart
    \/ \E c \in Channels, n \in Names : CreateChannel(c, n)
    \/ \E c \in Channels, t \in Entries, k \in {"any", "ip", "domain"} : AddRules(c, t, k)
    \/ \E i \in DOMAIN rows : DelRule(i)
    \/ \E ids \in SUBSET DOMAIN rows, on \in BOOLEAN : SetRulesEnabled(ids, on)
    \/ \E c \in Channels : DeleteChannel(c)
    \/ \E unread \in SUBSET InDb : Export(unread)
    \/ \E id \in [DOMAIN file -> Channels] : Import(id)

Spec == Init /\ [][Next]_vars

-----------------------------------------------------------------------------
(* Properties.                                                              *)

(* What rules are made of: networks with a mask that fits or none, domains  *)
(* behind wildcards, and what an earlier version let through.               *)
RuleHosts == (Hosts \cup {Dotted[b] : b \in Bits} \cup {Group[b] : b \in Bits}) \ {<<>>}
Networks  == [kind : {"ip"}, fam : {4, 6}, bits : Bits, len : (0..Width) \cup {NoMask}]
Domains   == [kind : {"domain"}, host : RuleHosts, wild : 0..3]
Patterns  == Networks \cup Domains \cup {Malformed}
Rule      == [ch : Channels, pat : Patterns, on : BOOLEAN]

(* Tables that belong together: each rule is some channel's.                *)
OwnRules(n, rs) == rs \in Seq(Rule) /\ \A r \in ToSet(rs) : r.ch \in DOMAIN n
Tables(n, rs) ==
    /\ DOMAIN n \subseteq Channels /\ IsFiniteSet(DOMAIN n)
    /\ n \in [DOMAIN n -> Names]
    /\ OwnRules(n, rs)

ASSUME LegacyAssumption ==
    \A db \in Legacy : Tables(db.name, db.rows) /\ OwnRules(db.name, db.domains)

(* Whatever is typed in, left behind, edited, exported and imported, the    *)
(* tables and the file hold these patterns, each rule with a channel that   *)
(* exists (plan_rules, init, del_channel, config_import).                   *)
TypeOK ==
    /\ Tables(name, rows) /\ OwnRules(name, domains)
    /\ file \in Seq([name : Names, rules : Seq(Rule)])
    /\ moved \in BOOLEAN /\ lossy \in BOOLEAN
    /\ DOMAIN origin = {"name", "rows"} /\ Tables(origin.name, origin.rows)

(* The rows of rs that are on and bind dest, by position.  A domain typed   *)
(* with three or more wildcard labels keeps one in the configuration and    *)
(* binds nothing.                                                           *)
Plain(r) == r.pat.kind = "domain" => r.pat.wild <= 1
Binding(rs, dest) ==
    {i \in DOMAIN rs :
        /\ rs[i].on /\ Plain(rs[i])
        /\ \/ /\ rs[i].pat.kind = "ip"
              /\ InNet([rs[i].pat EXCEPT !.len = Prefix(rs[i].pat)], dest)
           \/ /\ rs[i].pat.kind = "domain" /\ dest.fam = 0
              /\ IsPrefix(rs[i].pat.host, dest.host)}

Weight(r) == IF r.pat.kind = "ip" THEN Prefix(r.pat) ELSE 0

(* The reference: the most specific network, the earliest of several; the   *)
(* earliest domain, however wide.                                           *)
Strongest(rs, dest) ==
    {i \in Binding(rs, dest) : \A j \in Binding(rs, dest) :
        Weight(rs[i]) >= Weight(rs[j])}

(* Of the networks that hold an address the narrowest decides, however the  *)
(* rules came to be in this order, and of equal ones the oldest; of the     *)
(* domains of a host the oldest (build_mihomo_config).  What nothing binds  *)
(* goes direct, what a row binds does not.                                  *)
SpecificWins ==
    LET lines == BuildRules(rows)
    IN  \A dest \in Dests :
          LET strongest == Strongest(rows, dest)
          IN  IF strongest = {} THEN Route(lines, dest) = Direct
              ELSE \E i \in strongest : /\ \A j \in strongest : i <= j
                                        /\ Route(lines, dest) = rows[i].ch

(* Provider and snippet send exactly what mihomo binds.  The routes of the  *)
(* TUN entry send the addresses some rule with a stored mask binds, so that *)
(* only those of a bare address in an old row are missed.  The PAC script   *)
(* sends what is bound, but for v6 and for what only a domain outside ASCII *)
(* binds; and it sends a v4 address for a domain that ends its text, which  *)
(* mihomo then does not bind.                                               *)
EntriesAgree ==
    LET lines == BuildRules(rows)
    IN  \A dest \in Dests :
        LET bound   == Route(lines, dest) # Direct
            binding == {rows[i].pat : i \in Binding(rows, dest)}
        IN  /\ ByProvider(rows, dest) <=> bound
            /\ ByTun(rows, dest) <=>
                  dest \in Addresses /\ \E pat \in binding : pat.len # NoMask
            /\ ByPac(rows, dest) <=>
                  \/ /\ dest.fam # 6
                     /\ \E pat \in binding : pat.kind = "domain" => Ascii(pat)
                  \/ /\ dest.fam = 4
                     /\ \E pat \in Provider(rows) :
                           pat.kind = "domain" /\ Ascii(pat) /\ InSuffix(pat, dest)

(* A rule that is added takes no host name that is bound, and an address    *)
(* only from wider networks (manager.rs:43: a /24 of one channel must not   *)
(* cover a /32 of another).                                                 *)
AddTakesFromWider ==
    [][Len(rows') > Len(rows) /\ ~moved' =>
         LET before == BuildRules(rows)
             after  == BuildRules(rows')
         IN  \A dest \in Dests :
               Route(before, dest) \notin {Direct, Route(after, dest)} =>
                 /\ dest \in Addresses
                 /\ \A i \in Strongest(rows', dest), j \in Binding(rows, dest) :
                        Weight(rows'[i]) > Weight(rows[j])]_vars

(* A backup taken to another machine sends every destination to the channel *)
(* of the same name, if all rules could be read, no two channels share a    *)
(* name, and only one channel binds the destination with equal strength:    *)
(* rows come back channel by channel, so the age of rules of different      *)
(* channels is lost.                                                        *)
Contested(rs, dest) ==
    \E i, j \in Strongest(rs, dest) : rs[i].ch # rs[j].ch
Distinct(n) == \A c, d \in DOMAIN n : n[c] = n[d] => c = d
BackupRestores ==
    (/\ moved /\ ~lossy /\ Distinct(origin.name)
     /\ \A r \in ToSet(origin.rows) : Plain(r)) =>
      LET before == BuildRules(origin.rows)
          after  == BuildRules(rows)
      IN  \A dest \in Dests :
            LET old == Route(before, dest)
                new == Route(after, dest)
            IN  ~Contested(origin.rows, dest) =>
                  IF old = Direct THEN new = Direct
                  ELSE new # Direct /\ name[new] = origin.name[old]

-----------------------------------------------------------------------------
(* What the proof of BackupRestores needs besides: the file is the database *)
(* it was taken from, and after the import each rule of the one is in the   *)
(* other, normalised, with the channel of that name; malformed ones are not.*)
Document(n, rs) ==
    LET ids == ByAge(DOMAIN n)
    IN  [i \in DOMAIN ids |-> [name |-> n[ids[i]], rules |-> RulesOf(rs, ids[i])]]

Twins(x, y) ==
    /\ y.pat = NormalizeStored(x.pat) /\ y.on = x.on
    /\ name[y.ch] = origin.name[x.ch]

RestoreInv ==
    ~lossy =>
      /\ file # <<>> => file = Document(origin.name, origin.rows)
      /\ moved /\ Distinct(origin.name) =>
           /\ \A x \in ToSet(origin.rows) :
                NormalizeStored(x.pat) # Nothing => \E y \in ToSet(rows) : Twins(x, y)
           /\ \A y \in ToSet(rows) : \E x \in ToSet(origin.rows) : Twins(x, y)

=============================================================================
