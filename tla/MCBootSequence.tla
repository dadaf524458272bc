---------------------------- MODULE MCBootSequence -----------------------------
(* Octets of two bits on the wire, an identifier of two, a key of three
   characters; pages and slots with the value sought, a part of it, none. *)
EXTENDS BootSequence

\* The boards of the repository, by what the boot depends on, and the default.
MCBoards ==
  {[source |-> "uid", ram |-> FALSE, stay |-> {}],
   [source |-> "uid", ram |-> FALSE, stay |-> {"we", "always"}],     \* Fomu
   [source |-> "page", ram |-> FALSE, stay |-> {"always"}],          \* TinyFPGA BX
   [source |-> "page", ram |-> FALSE, stay |-> {"button", "we"}],    \* OrangeCrab, ButterStick
   [source |-> "page", ram |-> TRUE, stay |-> {"button", "we"}]}     \* ecpbreaker

u == 117

MCKey == <<QUOTE, u, QUOTE>>

\* A broken key before the key, "":"u":"ab"; a value without its end; no key.
MCSecPages ==
  {<<QUOTE, QUOTE, u, QUOTE, COLON, QUOTE, 97, 98, QUOTE, 125>>,
   <<QUOTE, u, QUOTE, COLON, 32, QUOTE, 97, 98, 99, 100>>,
   <<u, QUOTE, COLON, QUOTE, 97, QUOTE, 125, 125, 125, 125>>}

MCUids == {<<18, 254>>}

MCSync   == <<7, 8>>
MCPoison == <<5, 7>>

\* The word, after a false start; over the end of the probe; poison before it.
MCSlots == {<<7, 7, 8, 0>>, <<0, 0, 0, 7>>, <<5, 7, 8, 1>>}

=============================================================================
