------------------------------ MODULE MCUpgrade ------------------------------
(* Instances of Upgrade for TLC.                                           *)
EXTENDS Upgrade

(* No header, one that names the token among others, one that does not,    *)
(* and one whose second line names it.                                     *)
Headers(token) ==
  {<<>>, << <<"other", token>> >>, << <<"other">> >>, << <<"other">>, <<token>> >>}
Offers ==
  {<<>>, << <<"a", "b">> >>, << <<"b", "a">> >>, << <<"c", "b">> >>, << <<"c">> >>,
   << <<"c">>, <<"a">> >>}

AllRequests ==
  [get : BOOLEAN, upgrade : Headers("websocket"), connection : Headers("upgrade"),
   version : {"13", "8"}, key : {"16 bytes", "other"},
   protocols : Offers]

Chains == {<<>>, <<"nil", "error">>, <<"nil", "MiddlewareErr">>, <<"nil", "nil">>}
AllSettings ==
  [subProtocols : {<<"a", "b">>}, rejectRaw : BOOLEAN, middlewares : Chains]
    \cup [subProtocols : {<<>>}, rejectRaw : {FALSE}, middlewares : {<<>>}]

OwnFrames ==
  {In("ping", 1), In("stray", 0), In("stray", 1), In("data", 1)}
=============================================================================
