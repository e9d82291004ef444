--------------------------- MODULE MC_TextSession ---------------------------
(* Instances of TextSession for TLC.                                         *)
EXTENDS TextSession

Lock == <<LOCK, <<"k">>>>
Unlock == <<UNLOCK, <<"k">>>>

\* An argument whose length has two digits.
Long == <<"a", "b", "c", "d", "e", "f", "g", "h", "i", "j">>

\* A session's lock and its release; a second LOCK before it; UNLOCK and no lock;
\* a database that may not be used; commands without arguments, without a
\* handler, and the ones that do not wait. A reply that is no array is followed by
\* one at most: the client parses that one over what the first left (stale).
MCScripts ==
  {<<Lock, Unlock>>, <<Lock, Lock, Unlock>>, <<Unlock, Lock>>, <<<<LOCK>>, Lock>>,
   <<<<SELECT, <<"1">>>>, Lock>>, <<<<SELECT, UNKNOWN_DB>>, Lock>>, <<<<<<"?">>>>, <<SELECT>>>>,
   <<Lock, <<ECHO, Long>>>>, <<<<PING>>, <<QUIT>>>>}

MCBytes == {"L", "O", "C", "U", "N", "S", "E", "H", "P", "I", "Q", "k", "?", "1", "9",
            "a", "b", "c", "d", "e", "f", "g", "h", "i", "j"}
=============================================================================
