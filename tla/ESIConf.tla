------------------------------ MODULE ESIConf ------------------------------
(***************************************************************************)
(* ngx_http_esi_filter_module.c: the directives of the filter and the      *)
(* location configurations they end up in.  nginx reads the directives of  *)
(* nested blocks in the order of the file, each into the configuration of  *)
(* its block, and then merges the blocks from the outside in.  The blocks  *)
(* here are one path through such a file.  Arrays of types are on a heap:  *)
(* a block may share the array of the block around it.                     *)
(***************************************************************************)
EXTENDS Integers, SequencesExt

CONSTANTS
  Blocks,       \* how many blocks there are: http, server, location, if
  Directives,   \* the directives that the file may have
  MaxWritten    \* bound: how many of them it has

UNSET == -1

\* What ngx_http_esi_merge_loc_conf gives a setting nobody wrote.
Default == [esi |-> 0, esi_silent_errors |-> 0, esi_min_file_chunk |-> 1024,
            esi_max_depth |-> 256]
Settings == DOMAIN Default

Html == "text/html"

ASSUME BlocksAssumption == Blocks \in 1..4 /\ MaxWritten \in Nat
ASSUME DirectivesAssumption ==
  \A d \in Directives :
    /\ d.block \in 1..Blocks
    /\ \/ d.name \in Settings /\ d.value \in Nat
       \/ d.name = "esi_types" /\ d.types \in Seq(STRING)

VARIABLES
  written,      \* the directives read so far, in whatever order
  conf,         \* of each block: its settings
  types,        \* of each block: its array of types, 0 if it has none
  arrays,       \* the arrays of types, in the order they were made
  merged,       \* how many blocks are merged, 0 while directives are read
  refused       \* whether nginx refuses the file

confVars == <<written, conf, types, arrays, merged, refused>>

ConfInit ==
  /\ written = {}
  /\ conf = [b \in 1..Blocks |-> [s \in Settings |-> UNSET]]
  /\ types = [b \in 1..Blocks |-> 0]
  /\ arrays = <<>>
  /\ merged = 0
  /\ refused = FALSE

\* In an if only esi itself may be written (NGX_HTTP_LIF_CONF).
Write(d) ==
  /\ merged = 0 /\ ~ refused
  /\ Cardinality(written) < MaxWritten
  /\ d.block = 4 => d.name = "esi"
  /\ written' = written \cup {d}
  /\ UNCHANGED merged

\* ngx_conf_set_flag_slot and ngx_conf_set_size_slot refuse a second value.
SetSlot(d) ==
  /\ d.name \in Settings
  /\ Write(d)
  /\ IF conf[d.block][d.name] # UNSET
       THEN refused' = TRUE /\ UNCHANGED conf
       ELSE /\ conf' = [conf EXCEPT ![d.block][d.name] = d.value]
            /\ UNCHANGED refused
  /\ UNCHANGED <<types, arrays>>

\* The loop over a directive's types, which skips text/html.
Others(list) ==
  LET pushed[n \in 0..Len(list)] ==
        IF n = 0 THEN <<>>
        ELSE IF list[n] = Html THEN pushed[n - 1] ELSE Append(pushed[n - 1], list[n])
  IN  pushed[Len(list)]

\* If every directive made an array.
EsiTypesAnew(d) ==
  /\ d.name = "esi_types" /\ d \notin written
  /\ Write(d)
  /\ arrays' = Append(arrays, <<Html>> \o Others(d.types))
  /\ types' = [types EXCEPT ![d.block] = Len(arrays')]
  /\ UNCHANGED <<conf, refused>>

\* ngx_http_esi_types: the first in a block makes its array, with text/html in
\* front; each adds to it.  Bound: none is written twice.
EsiTypes(d) ==
  /\ d.name = "esi_types" /\ d \notin written
  /\ Write(d)
  /\ IF types[d.block] = 0
       THEN /\ arrays' = Append(arrays, <<Html>> \o Others(d.types))
            /\ types' = [types EXCEPT ![d.block] = Len(arrays')]
       ELSE /\ arrays' = [arrays EXCEPT ![types[d.block]] = @ \o Others(d.types)]
            /\ UNCHANGED types
  /\ UNCHANGED <<conf, refused>>

\* All is read; there is nothing around the first block to merge it with.
EndReading ==
  /\ merged = 0 /\ ~ refused
  /\ merged' = 1
  /\ UNCHANGED <<written, conf, types, arrays, refused>>

\* If a block took the value around it over its own.
MergedSlotOuter(outer, own, default) ==
  IF outer # UNSET THEN outer ELSE IF own # UNSET THEN own ELSE default

\* ngx_conf_merge_value and ngx_conf_merge_size_value.
MergedSlot(outer, own, default) ==
  IF own # UNSET THEN own ELSE IF outer # UNSET THEN outer ELSE default

\* ngx_http_esi_merge_loc_conf of the next block with the one around it.
Merge ==
  LET b == merged + 1
  IN  /\ merged \in 1..(Blocks - 1)
      /\ merged' = b
      /\ conf' = [conf EXCEPT ![b] =
           [s \in Settings |-> MergedSlot(conf[merged][s], conf[b][s], Default[s])]]
      /\ IF types[b] = 0 /\ types[merged] = 0
           THEN /\ arrays' = Append(arrays, <<Html>>)
                /\ types' = [types EXCEPT ![b] = Len(arrays')]
           ELSE /\ types' = [types EXCEPT ![b] = IF @ = 0 THEN types[merged] ELSE @]
                /\ UNCHANGED arrays
      /\ UNCHANGED <<written, refused>>

ConfNext ==
  \/ \E d \in Directives : SetSlot(d) \/ EsiTypes(d)
  \/ EndReading
  \/ Merge

ConfSpec == ConfInit /\ [][ConfNext]_confVars

-----------------------------------------------------------------------------
(* What the file says, without blocks being merged.                        *)

\* The directives of that name in the block.
WrittenIn(b, name) == {d \in written : d.block = b /\ d.name = name}

\* The blocks, up to b, that have such a directive.
Giving(b, name) == {c \in 1..b : WrittenIn(c, name) # {}}

\* The value of a setting in block b: that of the innermost block giving one.
Setting(b, name) ==
  IF Giving(b, name) = {}
    THEN Default[name]
    ELSE (CHOOSE d \in WrittenIn(Max(Giving(b, name)), name) : TRUE).value

\* The types of block b: text/html and all that the innermost block lists.
Listed(b) ==
  LET giving == Giving(b, "esi_types")
  IN  {Html} \cup
        (IF giving = {} THEN {}
         ELSE UNION {ToSet(d.types) : d \in WrittenIn(Max(giving), "esi_types")})

\* Once a block is merged, its settings are those of the innermost block around
\* it that has a directive for them, in whatever order the file has the blocks
\* (ngx_http_esi_merge_loc_conf).
SettingsInherited ==
  \A b \in 2..merged, s \in Settings : conf[b][s] = Setting(b, s)

\* So are its types, in whatever order the file has the directives, each of which
\* adds to the array of its block (ngx_http_esi_types).
TypesInherited == \A b \in 2..merged : ToSet(arrays[types[b]]) = Listed(b)
=============================================================================
