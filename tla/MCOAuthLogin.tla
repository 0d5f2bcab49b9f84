---------------------------- MODULE MCOAuthLogin ----------------------------
(* OAuthLogin for TLC: what port may hold before it is assigned, and which of the ports 1, 2
   and 3 other programs use; 3 is the port start() does not try. *)
EXTENDS OAuthLogin

Anything == {-1, 0, 7}

SomeFree == {{1}, {1, 2, 3}}
=============================================================================
