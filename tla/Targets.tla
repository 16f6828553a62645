-------------------------------- MODULE Targets -------------------------------
(***************************************************************************)
(* Callback targets of clavenar-lite: the normalization of URLs, the       *)
(* allowlist and the public addresses (src/src/target_validation.rs), and  *)
(* the choice among DNS answers (src/src/outbound_callback.rs).            *)
(*                                                                         *)
(* A URL is what the url crate parses it into.  A host is the sequence of  *)
(* its labels, in lower case, or an IPv4 address; path segments and labels *)
(* are opaque.  An address is the tuple of its 4 octets or its 8 16-bit    *)
(* segments.  IPv6 literals as hosts are left out.                         *)
(***************************************************************************)
EXTENDS Integers, Sequences, FiniteSets

CONSTANTS
    Segments,         \* path segments
    Queries,          \* query strings, the absent one included
    NoQuery

Labels == {"example", "com", "local", "localhost", "internal", "home", "arpa"}

Octets == 0 .. 255
Words == 0 .. 65535

IPv4 == [1 .. 4 -> Octets]
IPv6 == [1 .. 8 -> Words]

(* dots says that the name ends in dots, slash that the path ends in one   *)
(* (and is not "/" itself).                                                *)
Domain == [kind : {"domain"}, labels : Seq(Labels), dots : BOOLEAN]
Literal == [kind : {"address"}, address : IPv4]

Ports == 1 .. 65535

URL == [scheme : {"http", "https", "file"}, credentials : BOOLEAN, fragment : BOOLEAN,
        host : Domain \cup Literal, port : Ports,
        path : Seq(Segments), slash : BOOLEAN, query : Queries]

------------------------------------------------------------------------------
(* Public addresses.                                                       *)

(* is_public_ipv4.                                                         *)
IsPublicIPv4(x) ==
    LET a == x[1]  b == x[2]  c == x[3] IN
    /\ a \notin {0, 10, 127} /\ a < 224
    /\ ~(a = 100 /\ b \in 64 .. 127)
    /\ ~(a = 169 /\ b = 254)
    /\ ~(a = 172 /\ b \in 16 .. 31)
    /\ ~(a = 192 /\ <<b, c>> \in {<<0, 0>>, <<0, 2>>, <<88, 99>>})
    /\ ~(a = 192 /\ b = 168)
    /\ ~(a = 198 /\ (b \in {18, 19} \/ <<b, c>> = <<51, 100>>))
    /\ ~(a = 203 /\ b = 0 /\ c = 113)

IsMapped(x) == (\A n \in 1 .. 5 : x[n] = 0) /\ x[6] = 65535

MappedIPv4(x) == <<x[7] \div 256, x[7] % 256, x[8] \div 256, x[8] % 256>>

(* is_public_ipv6: a mapped address counts as the IPv4 one; otherwise only *)
(* 2000::/3 is public, but for documentation, benchmarking, Teredo and     *)
(* ORCHID.  What unspecified, loopback, multicast and IPv4-compatible      *)
(* exclude lies outside 2000::/3.                                          *)
IsPublicIPv6(x) ==
    IF IsMapped(x) THEN IsPublicIPv4(MappedIPv4(x))
    ELSE /\ x[1] \div 8192 = 1
         /\ ~(x[1] = 8193 /\ x[2] \in {3512, 2, 0})
         /\ ~(x[1] = 8193 /\ x[2] \div 32 = 1)

IsPublic(x) == IF Len(x) = 4 THEN IsPublicIPv4(x) ELSE IsPublicIPv6(x)

(* compare_addresses: IPv4 first, then by octets.                          *)
Before(x, y) ==
    \/ Len(x) < Len(y)
    \/ /\ Len(x) = Len(y)
       /\ \E n \in DOMAIN x : x[n] < y[n] /\ \A m \in 1 .. n - 1 : x[m] = y[m]

MaximumAnswers == 32

(* validate_answers: the list as a whole is refused, and its length is     *)
(* that with repetitions.                                                  *)
AnswersAccepted(answers) ==
    /\ Len(answers) \in 1 .. MaximumAnswers
    /\ \A n \in DOMAIN answers : IsPublic(answers[n])

Unique(answers) == {answers[n] : n \in DOMAIN answers}

(* The first in the order of compare_addresses.                            *)
Selected(S) == CHOOSE x \in S : \A y \in S \ {x} : Before(x, y)

------------------------------------------------------------------------------
(* Normalization.                                                          *)

EndsIn(labels, suffix) ==
    /\ Len(labels) > Len(suffix)
    /\ SubSeq(labels, Len(labels) - Len(suffix) + 1, Len(labels)) = suffix

(* normalize_host: local names, single labels and reserved addresses are   *)
(* refused.                                                                *)
HostAccepted(h) ==
    \/ /\ h.kind = "domain"
       /\ Len(h.labels) >= 2
       /\ \A suffix \in {<<"localhost">>, <<"local">>, <<"internal">>, <<"home", "arpa">>} :
              ~EndsIn(h.labels, suffix)
    \/ h.kind = "address" /\ IsPublicIPv4(h.address)

(* normalize, the conditions: entry says that it is one of the allowlist.  *)
Normalizes(u, entry) ==
    /\ u.scheme \in {"http", "https"}
    /\ ~u.credentials /\ ~u.fragment
    /\ entry => u.query = NoQuery
    /\ HostAccepted(u.host)

(* normalize, the result: the host loses its dots; only an allowlist entry *)
(* loses the slash at the end of its path.                                 *)
Normalized(u, entry) ==
    [u EXCEPT !.host = IF @.kind = "domain" THEN [@ EXCEPT !.dots = FALSE] ELSE @,
              !.slash = IF entry THEN FALSE ELSE @]

(* path_matches: equal, or below at a segment boundary; "/" matches all.   *)
PathMatches(allowed, requested) ==
    /\ Len(allowed) <= Len(requested)
    /\ SubSeq(requested, 1, Len(allowed)) = allowed

(* validate_target.  An entry that does not normalize fails every target.  *)
Allows(allowlist, u) ==
    /\ allowlist # {}
    /\ \A e \in allowlist : Normalizes(e, TRUE)
    /\ Normalizes(u, FALSE)
    /\ \E e \in allowlist :
           /\ e.scheme = u.scheme /\ e.port = u.port
           /\ Normalized(e, TRUE).host = Normalized(u, FALSE).host
           /\ PathMatches(e.path, u.path)

===============================================================================
