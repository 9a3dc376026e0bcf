----------------------------- MODULE ConfigLookup -----------------------------
(***************************************************************************)
(* Looking up parameters in a device's part of the configuration string:   *)
(* find_key of drivers/config.c; and what discovery and look-up are to     *)
(* find, defined from the positions of the braces alone.                   *)
(***************************************************************************)
EXTENDS ConfigString

(* find_key(start, end, name, take).  A name "a.b" is the sequence of its  *)
(* keys; end is the first position behind the device.                      *)
RECURSIVE find_key(_, _, _, _), find_value(_, _, _, _, _)

find_key(start, end, name, take) ==
  IF start >= end \/ config[start] = "}" THEN start
  ELSE find_value(start + 1, end, name, take, config[start])

(* Mutant: a block that does not match is not skipped, but searched. *)
M_FindValueEntersBlocks(start, end, name, take, k) ==
  IF start >= end THEN start
  ELSE CASE config[start] = ";" -> find_key(start + 1, end, name, take)
         [] config[start] = "{" -> find_key(start + 1, end, name, take)
         [] OTHER -> IF take /\ name = <<k>> THEN start
                     ELSE find_value(start + 1, end, name, take, k)

(* Its inner loop, over the values of key k. *)
find_value(start, end, name, take, k) ==
  IF start >= end THEN start
  ELSE CASE config[start] = ";" -> find_key(start + 1, end, name, take)
         [] config[start] = "{" ->
              IF take /\ Len(name) > 1 /\ k = Head(name)
              THEN find_key(start + 1, end, Tail(name), TRUE)
              ELSE LET p == find_key(start + 1, end, <<>>, FALSE)
                   IN find_value(IF config[p] = "}" THEN p + 1 ELSE p, end, name, take, k)
         [] OTHER -> IF take /\ name = <<k>> THEN start
                     ELSE find_value(start + 1, end, name, take, k)

-----------------------------------------------------------------------------
(* The structure of the string.  A block is the position of its opening    *)
(* brace, or 0 for the string itself.                                      *)
Level(i) ==
  Cardinality({j \in 1 .. i - 1 : config[j] = "{"})
    - Cardinality({j \in 1 .. i - 1 : config[j] = "}"})

Keys == {i \in DOMAIN config : config[i] # "}" /\ (i = 1 \/ config[i - 1] \in {"{", ";"})}
Values == {i \in DOMAIN config : config[i] \notin Symbols} \ Keys
Blocks == {0} \cup {i \in DOMAIN config : config[i] = "{"}

(* The blocks around position i, the innermost of them, and its key.       *)
Around(i) ==
  {b \in Blocks : b < i /\ (b > 0 => \A j \in b + 1 .. i : Level(j) > Level(b))}
BlockOf(i) == Max(Around(i))
KeyOf(i) == Max({j \in Keys : j < i /\ Level(j) = Level(i)})

DeviceBlocks == {BlockOf(i) : i \in {j \in Keys : config[j] = "interface"}}
Sorted(S) == SetToSortSeq(S, <)

(* The keys of the blocks around position i that are inside block b. *)
PathTo(i, b) ==
  LET inner == Sorted({c \in Around(i) : c > b})
  IN [n \in DOMAIN inner |-> config[KeyOf(inner[n])]]

(* The device that position i is a part of; -1 for none. *)
Owner(i) == Max({-1} \cup (Around(i) \cap DeviceBlocks))

EndOf(b) ==
  Min({Len(config) + 1}
        \cup {i \in DOMAIN config : b > 0 /\ i > b /\ config[i] = "}" /\ Level(i) = Level(b) + 1})

(* A value is a resource: by itself under a key irq, bus or mem, or as the *)
(* end of a range in a block of such a key.                                *)
IsSingle(i) == FlagsOf(config[KeyOf(i)]) # "none" /\ config[i] \in Numbers
IsRange(i) ==
  /\ BlockOf(i) > 0 /\ FlagsOf(config[KeyOf(BlockOf(i))]) # "none"
  /\ {config[KeyOf(i)], config[i]} \subseteq Numbers

ResourceAt(i, d) ==
  IF IsSingle(i)
  THEN [name |-> PathTo(i, d), flags |-> config[KeyOf(i)], start |-> config[i], end |-> config[i]]
  ELSE [name |-> PathTo(BlockOf(i), d), flags |-> config[KeyOf(BlockOf(i))],
        start |-> config[KeyOf(i)], end |-> config[i]]

ExpectedDevice(d) ==
  LET own == Sorted({i \in Values : Owner(i) = d /\ (IsSingle(i) \/ IsRange(i))})
      interface == {i \in Keys : config[i] = "interface" /\ BlockOf(i) = d}
  IN [name |-> IF d = 0 THEN <<>> ELSE PathTo(d + 1, Max({0, Owner(d)})),
      driver |-> <<config[Max(interface) + 1]>>,
      start |-> d + 1, end |-> EndOf(d),
      resources |-> [n \in DOMAIN own |-> ResourceAt(own[n], d)]]

Expected == [n \in 1 .. Cardinality(DeviceBlocks) |-> ExpectedDevice(Sorted(DeviceBlocks)[n])]

-----------------------------------------------------------------------------
(* What is in memory after the last pass. *)
NameAt(p) ==
  IF p = Dot THEN <<>>
  ELSE LET e == Min({q \in DOMAIN out.text : q > p /\ out.text[q].last})
       IN [i \in 1 .. e - p |-> out.text[p + i].word]

Found ==
  [n \in DOMAIN out.devices |->
     LET d == out.devices[n]
     IN [name |-> NameAt(d.name), driver |-> NameAt(d.driver), start |-> d.start, end |-> d.end,
         resources |-> [i \in 1 .. d.num |->
                          LET r == out.resources[d.resource + i]
                          IN [r EXCEPT !.name = NameAt(@)]]]]

(* config.c: every block with an interface becomes a device, once, in      *)
(* order, and has the resources that are in its part of the string and in  *)
(* no inner device's, with the values, and the names relative to it, that  *)
(* the braces say.  It ends in a null pointer if and only if such a block  *)
(* is itself one of ranges.                                                *)
RangesInDevice == \E i \in Values : IsRange(i) /\ BlockOf(i) \in DeviceBlocks

DevicesFound ==
  /\ pass = 3 => Found = Expected /\ ~RangesInDevice
  /\ Top.at = "oops" => RangesInDevice

(* "keep this function in sync with parse_config_string" (config.c:211,    *)
(* 460): within the bounds that discovery gave a device, find_key returns  *)
(* the first value of a name, if no block on its way has the key twice;    *)
(* and never another key's value.                                          *)
KeysOf(name, d) == {j \in Keys : d \in Around(j) /\ Append(PathTo(j, d), config[j]) = name}

KeysFound ==
  pass = 3 =>
    \A n \in DOMAIN out.devices :
       LET d == out.devices[n].start - 1
           names == {Append(PathTo(j, d), config[j]) : j \in {k \in Keys : d \in Around(k)}}
       IN \A name \in names :
            LET value == find_key(out.devices[n].start, out.devices[n].end, name, TRUE)
                own == {i \in Values : KeyOf(i) \in KeysOf(name, d)}
            IN /\ value \in Values /\ value < out.devices[n].end => value \in own
               /\ own # {} /\ (\A l \in 1 .. Len(name) :
                                   Cardinality(KeysOf(SubSeq(name, 1, l), d)) = 1)
                    => value = Min(own)
=============================================================================
