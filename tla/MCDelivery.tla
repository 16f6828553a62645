------------------------------- MODULE MCDelivery ------------------------------
(***************************************************************************)
(* Values of the constants for TLC.                                        *)
(***************************************************************************)
EXTENDS Delivery, TLC

CONSTANTS i1, i2, hil, evil

Name(labels) == [kind |-> "domain", labels |-> labels, dots |-> FALSE]

Example == Name(<<"example", "com">>)

At(scheme, host, path) ==
    [scheme |-> scheme, credentials |-> FALSE, fragment |-> FALSE, host |-> host,
     port |-> IF scheme = "https" THEN 443 ELSE 80, path |-> path, slash |-> FALSE,
     query |-> NoQuery]

Secure == At("https", Example, <<hil>>)
Plain == At("http", Example, <<hil>>)

(* The second process was started with a shorter list.                     *)
Allowlists == (i1 :> {Secure, Plain}) @@ (i2 :> {Secure})

(* None, the entry itself and with http, and one the list does not hold.   *)
AskedFor ==
    {NoValue, [Plain EXCEPT !.host.dots = TRUE], Secure, At("https", Example, <<evil>>)}

(* Five places the longer list allows, one more than three hops may visit: *)
(* the entries and, below them, paths with and without a slash at the end; *)
(* and one elsewhere.                                                      *)
Redirects ==
    {Secure, Plain, [Secure EXCEPT !.path = <<hil, hil>>, !.slash = TRUE],
     [Secure EXCEPT !.path = <<hil, evil>>], [Plain EXCEPT !.path = <<hil, evil>>],
     At("https", Name(<<"home", "arpa">>), <<hil>>)}

(* Public with a repetition, inward at the edge of a block, and both.      *)
Lookups ==
    {<< <<172, 32, 0, 1>>, <<9, 9, 9, 9>>, <<172, 32, 0, 1>> >>,
     << <<172, 31, 255, 255>> >>,
     << <<8, 8, 8, 8>>, <<0, 0, 0, 0, 0, 65535, 2560, 1>> >>,
     << <<9734, 18176, 0, 0, 0, 0, 0, 1>> >>, <<>>}

===============================================================================
