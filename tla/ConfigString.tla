----------------------------- MODULE ConfigString -----------------------------
(***************************************************************************)
(* Device discovery from the configuration string: parse_config_string and *)
(* config_find_devices of drivers/config.c.                                *)
(*                                                                         *)
(* The string is a sequence of tokens: words (keys, values), quoted        *)
(* strings, braces and semicolons.  It is walked three times, to mark the  *)
(* blocks that are devices, to measure what the devices need, and to write *)
(* it.  The recursion of parse_config_string is a stack of calls; its      *)
(* struct parser_state, passed and returned by value, is one set of        *)
(* variables.  A name takes as many cells as it has words.                 *)
(***************************************************************************)
EXTENDS Integers, Sequences, FiniteSets, SequencesExt

CONSTANTS
  Configs,    \* configuration strings
  Numbers,    \* the words that parse_u64 consumes as a whole
  Quoted      \* quoted strings

VARIABLES
  config,     \* the string
  pass,       \* 0 to 2, and 3 when all is done
  calls,      \* the calls of parse_config_string that are active
  pos,        \* state.config
  key,        \* state.key_start
  roots,      \* the bytes of the array roots, as far as they were used
  nroots,     \* state.roots
  ndevices,   \* state.devices
  out,        \* what the parser produces: devices, resources and text are
              \* memory, names is the next free cell of text
  size        \* num_resources and size_names, as measured in pass 1

vars == <<config, pass, calls, pos, key, roots, nroots, ndevices, out, size>>

Symbols == {"{", "}", ";"}
Nul == "0"
ASSUME NumbersAssumption == Numbers \cap (Quoted \cup Symbols) = {}
ASSUME QuotedAssumption == Quoted \cap (Symbols \cup {Nul}) = {}

(* The string is not empty: of kzalloc(0) not even one byte may be read.   *)
ASSUME ConfigsAssumption == \A c \in Configs : c \in Seq(STRING) /\ c # <<>>

(* The flags of a key that names a kind of resource. *)
FlagsOf(word) == IF word \in {"irq", "bus", "mem"} THEN word ELSE "none"

Dot == -1     \* the name "."
NoDevice == 0

Call(path, parent_flags, target) ==
  [at |-> "enter", am_root |-> 0, path |-> path, parent_flags |-> parent_flags,
   target |-> target, iface |-> FALSE, flags |-> "none"]

Top == Last(calls)
Becomes(call) == calls' = Append(Front(calls), call)

(* The token at pos, behind the last one the terminating zero. *)
Token == IF pos > Len(config) THEN Nul ELSE config[pos]

BlankResource == [name |-> Dot, flags |-> "none", start |-> "0", end |-> "0"]
BlankDevice == [name |-> Dot, driver |-> Dot, start |-> 1, end |-> 1, resource |-> 0, num |-> 0]
BlankCell == [word |-> "0", last |-> FALSE]

(* kzalloc(strlen(config)): a token is a character at least. *)
Init ==
  /\ config \in Configs
  /\ pass = 0
  /\ calls = <<Call(<<>>, "none", NoDevice)>>
  /\ pos = 1 /\ key = 1
  /\ roots = [i \in 1 .. Len(config) |-> FALSE] /\ nroots = 0 /\ ndevices = 0
  /\ out = [names |-> 0, devices |-> <<>>, resources |-> <<>>, text |-> <<>>]
  /\ size = [resources |-> 0, names |-> 0]

-----------------------------------------------------------------------------
(* config_path: the keys from the enclosing device down, into text in the  *)
(* last pass.                                                              *)
NameOf(o, path) == IF path = <<>> THEN Dot ELSE o.names

Written(o, words) ==
  [o EXCEPT !.names = @ + Len(words),
            !.text = IF pass < 2 THEN @
                     ELSE [i \in DOMAIN @ |->
                             IF i - o.names \in DOMAIN words
                             THEN [word |-> words[i - o.names], last |-> i - o.names = Len(words)]
                             ELSE @[i]]]

parse_interface(o, target, value) ==
  Written(IF target = NoDevice THEN o ELSE [o EXCEPT !.devices[target].driver = o.names],
          <<value>>)

(* The common end of parse_range and parse_single. *)
AddResource(o, target, path, flags, start, end) ==
  LET w == Written(o, path)
      d == o.devices[target]
      r == [name |-> NameOf(o, path), flags |-> flags, start |-> start, end |-> end]
  IN [w EXCEPT !.devices[target].num = @ + 1,
               !.resources = IF pass < 2 THEN @
                             ELSE [i \in DOMAIN @ |->
                                     IF i = d.resource + d.num + 1 THEN r ELSE @[i]]]

(* Mutant: a name is only made for the last pass. *)
M_ParseRangeNamesLate(o, target, path, flags, k, value) ==
  IF flags = "none" \/ {k, value} \ Numbers # {} \/ target = NoDevice THEN o
  ELSE AddResource(o, target, IF pass < 2 THEN <<>> ELSE Front(path), flags, k, value)

(* key value; in a block of ranges, named after the block's parent. *)
parse_range(o, target, path, flags, k, value) ==
  IF flags = "none" \/ {k, value} \ Numbers # {} \/ target = NoDevice THEN o
  ELSE AddResource(o, target, Front(path), flags, k, value)

parse_single(o, target, path, flags, value) ==
  IF flags = "none" \/ value \notin Numbers \/ target = NoDevice THEN o
  ELSE AddResource(o, target, path, flags, value, value)

-----------------------------------------------------------------------------
(* Mutant: a device's parts are named from the top of the string. *)
M_EnterBlockKeepsParent ==
  /\ Top.at = "enter"
  /\ nroots' = nroots + 1
  /\ IF roots[nroots'] /\ pass >= 1
     THEN /\ ndevices' = ndevices + 1
          /\ Becomes([Top EXCEPT !.at = "keys", !.am_root = nroots', !.target = ndevices'])
          /\ out' = [Written(out, Top.path) EXCEPT
                       !.devices[ndevices'] = [@ EXCEPT !.name = NameOf(out, Top.path), !.num = 0,
                                                        !.start = pos, !.end = pos]]
     ELSE /\ Becomes([Top EXCEPT !.at = "keys", !.am_root = nroots'])
          /\ UNCHANGED <<ndevices, out>>
  /\ UNCHANGED <<config, pass, pos, key, roots, size>>

(* The beginning of parse_config_string.  A block that pass 0 marked is    *)
(* the next device, and what is in it is named from there.                 *)
enter_block ==
  /\ Top.at = "enter"
  /\ nroots' = nroots + 1
  /\ IF roots[nroots'] /\ pass >= 1
     THEN /\ ndevices' = ndevices + 1
          /\ Becomes([Top EXCEPT !.at = "keys", !.am_root = nroots', !.path = <<>>,
                                 !.target = ndevices'])
          /\ out' = [Written(out, Top.path) EXCEPT
                       !.devices[ndevices'] = [@ EXCEPT !.name = NameOf(out, Top.path), !.num = 0,
                                                        !.start = pos, !.end = pos]]
     ELSE /\ Becomes([Top EXCEPT !.at = "keys", !.am_root = nroots'])
          /\ UNCHANGED <<ndevices, out>>
  /\ UNCHANGED <<config, pass, pos, key, roots, size>>

(* A key begins an entry; "interface" marks the block. *)
parse_key ==
  /\ Top.at = "keys" /\ Token \notin {Nul, "}"}
  /\ key' = pos /\ pos' = pos + 1
  /\ roots' = IF Token = "interface" THEN [roots EXCEPT ![Top.am_root] = TRUE] ELSE roots
  /\ Becomes([Top EXCEPT !.at = "items", !.iface = Token = "interface", !.flags = FlagsOf(Token)])
  /\ UNCHANGED <<config, pass, nroots, ndevices, out, size>>

parse_quoted ==
  /\ Top.at = "items" /\ Token \in Quoted
  /\ out' = IF Top.iface THEN parse_interface(out, Top.target, Token) ELSE out
  /\ pos' = pos + 1
  /\ Becomes([Top EXCEPT !.iface = FALSE])
  /\ UNCHANGED <<config, pass, key, roots, nroots, ndevices, size>>

(* The recursive call: its parent is this call's state, key and all. *)
parse_block ==
  /\ Top.at = "items" /\ Token = "{"
  /\ pos' = pos + 1
  /\ calls' = Append(Front(calls), [Top EXCEPT !.iface = FALSE])
                 \o <<Call(Append(Top.path, config[key]), Top.flags, Top.target)>>
  /\ UNCHANGED <<config, pass, key, roots, nroots, ndevices, out, size>>

(* parent->parent, of a device whose own block is one of ranges: it has no *)
(* parent.                                                                 *)
NullParent ==
  /\ Top.at = "items" /\ Token \in Numbers /\ config[key] \in Numbers
  /\ Top.path = <<>> /\ Top.parent_flags # "none" /\ Top.target # NoDevice

parse_range_oops ==
  /\ NullParent
  /\ Becomes([Top EXCEPT !.at = "oops"])
  /\ UNCHANGED <<config, pass, pos, key, roots, nroots, ndevices, out, size>>

(* A value may be an interface's name, the end of a range and a resource   *)
(* of its own, all at once.                                                *)
parse_value ==
  /\ Top.at = "items" /\ Token \notin Quoted \cup {Nul, "{", ";"}
  /\ ~NullParent
  /\ LET o1 == IF Top.iface THEN parse_interface(out, Top.target, Token) ELSE out
         o2 == parse_range(o1, Top.target, Top.path, Top.parent_flags, config[key], Token)
     IN out' = parse_single(o2, Top.target, Top.path, Top.flags, Token)
  /\ pos' = pos + 1
  /\ Becomes([Top EXCEPT !.iface = FALSE])
  /\ UNCHANGED <<config, pass, key, roots, nroots, ndevices, size>>

(* The semicolon.  A device reaches to the end of its last entry. *)
end_entry ==
  /\ Top.at = "items" /\ Token \in {Nul, ";"}
  /\ pos' = IF Token = Nul THEN pos ELSE pos + 1
  /\ out' = IF roots[Top.am_root] /\ Top.target # NoDevice /\ pass >= 1
            THEN [out EXCEPT !.devices[Top.target].end = pos'] ELSE out
  /\ Becomes([Top EXCEPT !.at = "keys"])
  /\ UNCHANGED <<config, pass, key, roots, nroots, ndevices, size>>

(* The end of a block, and back in its parent the brace. *)
end_block ==
  /\ Len(calls) > 1 /\ Top.at = "keys" /\ Token \in {Nul, "}"}
  /\ calls' = Front(calls)
  /\ pos' = IF Token = Nul THEN pos ELSE pos + 1
  /\ UNCHANGED <<config, pass, key, roots, nroots, ndevices, out, size>>

-----------------------------------------------------------------------------
(* config_find_devices between its passes: space is allocated for what the *)
(* last pass has found.                                                    *)
EndOfPass == Len(calls) = 1 /\ Top.at = "keys" /\ Token \in {Nul, "}"}

NumDevices == Cardinality({r \in 1 .. nroots : roots[r]})
NumResources(n) ==
  LET sum[i \in 0 .. n] == IF i = 0 THEN 0 ELSE sum[i - 1] + out.devices[i].num
  IN  sum[n]

Restart ==
  /\ calls' = <<Call(<<>>, "none", NoDevice)>>
  /\ pos' = 1 /\ nroots' = 0 /\ ndevices' = 0

next_pass ==
  /\ EndOfPass /\ pass < 3
  /\ pass' = pass + 1
  /\ CASE pass = 0 ->
            /\ out' = [out EXCEPT !.names = 0, !.devices = [i \in 1 .. NumDevices |-> BlankDevice]]
            /\ UNCHANGED size
       [] pass = 1 ->
            /\ size' = [resources |-> NumResources(NumDevices), names |-> out.names]
            /\ out' = [names |-> 0,
                       devices |-> [i \in 1 .. NumDevices |->
                                      [out.devices[i] EXCEPT !.resource = NumResources(i - 1)]],
                       resources |-> [i \in 1 .. size'.resources |-> BlankResource],
                       text |-> [i \in 1 .. size'.names |-> BlankCell]]
       [] pass = 2 -> UNCHANGED <<out, size>>
  /\ IF pass < 2 THEN Restart ELSE UNCHANGED <<calls, pos, nroots, ndevices>>
  /\ UNCHANGED <<config, key, roots>>

-----------------------------------------------------------------------------
Next ==
  \/ enter_block \/ parse_key \/ parse_quoted \/ parse_block \/ parse_value
  \/ parse_range_oops \/ end_entry \/ end_block \/ next_pass

Spec == Init /\ [][Next]_vars

-----------------------------------------------------------------------------
(* config.c:498, 574: no block is counted past the bytes of roots; pass 2  *)
(* writes nothing behind what pass 1 measured: no device has more          *)
(* resources than its share and the names fit; in the end all that was     *)
(* allocated is used.                                                      *)
LastPassFits ==
  /\ nroots <= Len(config)
  /\ pass >= 2 =>
    /\ out.names <= size.names
    /\ \A n \in 1 .. ndevices :
         LET d == out.devices[n]
             next == IF n < Len(out.devices) THEN out.devices[n + 1].resource
                     ELSE size.resources
         IN d.resource + d.num <= next /\ (pass = 3 => d.resource + d.num = next)
    /\ pass = 3 => out.names = size.names /\ ndevices = Len(out.devices)
=============================================================================
