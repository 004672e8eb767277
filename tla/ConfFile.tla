------------------------------- MODULE ConfFile -------------------------------
(***************************************************************************)
(* Reading a configuration: ngx_conf_parse() and ngx_conf_handler() find   *)
(* the directive in the tables of the modules, its set() handler writes a  *)
(* field, blocks get structures of their own, and when the outermost block *)
(* ends the structures are merged from the outside in.                     *)
(*                                                                         *)
(* A behaviour reads a file that has one directive, dir, at several places *)
(* of one chain of nested blocks.  Level 1 is the file itself, level 2 the *)
(* http, mail or events block.  The directive's value is abstracted to the *)
(* place and time it was given; a field is the mark that create_*_conf()   *)
(* left, or "default", or the sequence of its values (marks are sequences    *)
(* too, so that they can be compared).  A directive that takes a constant  *)
(* or a script has a field for each, which are handled apart: the pair of  *)
(* both is its value here.                                                 *)
(***************************************************************************)
EXTENDS HttpDirectives, SequencesExt

CONSTANTS
  MaxDepth,     \* bound: levels of blocks
  MaxGiven      \* bound: how often the directive stands in the file

VARIABLES
  dir,      \* the directive: its module's type, its row and how its field is kept
  blocks,   \* the chain of blocks: what cf->cmd_type is in each
  cur,      \* the block that is being parsed
  val,      \* per level: the directive's field
  given,    \* history, per level: the values written there
  refused,  \* "" or why the file is refused
  done      \* the outermost block has ended

vars == <<dir, blocks, cur, val, given, refused, done>>

-----------------------------------------------------------------------------
(* The tables.                                                             *)

Named == UNION {{c.name : c \in m.commands} : m \in Range(NgxModules)}

\* The rows with this name, in the order of ngx_modules.
Rows == [name \in Named |->
          FoldLeft(LAMBDA rows, m :
                     rows \o SetToSeq({[type |-> m.type, cmd |-> c] :
                                        c \in {d \in m.commands : d.name = name}}),
                   <<>>, NgxModules)]

\* cf->module_type in a block: what the handler of the block sets it to.
ModuleType(block) ==
  CASE block = "main"                -> "core"
    [] block = "events"              -> "event"
    [] block \in {"mail", "mserver"} -> "mail"
    [] OTHER                         -> "http"

Braced(cmd) == cmd.kind \in {"block", "multi"} \/ cmd.name = "types"

Allowed(cmd, block) == block \in cmd.where \/ "any" \in cmd.where

\* ngx_conf_handler(): the first module of the right type that has the name
\* decides, unless its row is NGX_CONF_MULTI and not for this block.
Handled(mine, block, nargs, brace) ==
  LET hits == SelectSeq(mine, LAMBDA r : Allowed(r.cmd, block) \/ r.cmd.kind # "multi")
      cmd  == hits[1].cmd
      no(why) == [rc |-> why]
  IN  CASE mine = <<>>                               -> no("unknown")
        [] hits = <<>>                               -> no("not allowed")
        [] ~Allowed(cmd, block)                      -> no("not allowed")
        [] brace # Braced(cmd)                         -> no("brace")
        [] nargs \notin cmd.args                     -> no("invalid")
        [] OTHER                                     -> [rc |-> "ok", cmd |-> cmd]

ConfHandler(name, block, nargs, brace) ==
  Handled(SelectSeq(Rows[name], LAMBDA r : r.type \in {"conf", ModuleType(block)}),
          block, nargs, brace)

-----------------------------------------------------------------------------
(* The set() handlers, by what they expect of the field.                   *)

Unset   == <<"NGX_CONF_UNSET">>
Null    == <<"NULL">>
Default == <<"default">>
Refuse  == [duplicate |-> <<"duplicate">>, crash |-> <<"crash">>]

\* ngx_conf_set_flag_slot() and the slots of numbers, sizes and times
SetUnset(old, v) == IF old = Unset THEN <<v>> ELSE Refuse.duplicate

\* ngx_conf_set_str_slot(), ngx_conf_set_bufs_slot(), ngx_conf_set_path_slot()
SetNull(old, v) == IF old = Null THEN <<v>> ELSE Refuse.duplicate

\* ngx_conf_set_str_array_slot(): without the mark it pushes to what is there
Push(old, v) ==
  CASE old = Unset -> <<v>>
    [] old = Null  -> Refuse.crash
    [] OTHER         -> Append(old, v)

\* ngx_conf_set_keyval_slot()
Add(old, v) ==
  CASE old = Null  -> <<v>>
    [] old = Unset -> Refuse.crash
    [] OTHER         -> Append(old, v)

\* ngx_conf_set_bitmask_slot(): bits or'ed into -1 are lost
SetMask(old, v) ==
  CASE old = Null  -> <<v>>
    [] old = Unset -> Unset
    [] OTHER         -> Append(old, v)

\* ngx_http_proxy_pass(), ngx_http_image_filter_jpeg_quality() and their like:
\* the value goes to the first field, or to the second if it is a script.
Scripted == {"pass", "store", "either"}
Forms(kind) == CASE kind = "store"             -> {"off", "constant", "script"}
                 [] kind \in {"pass", "either"} -> {"constant", "script"}
                 [] OTHER                      -> {"constant"}
SetForm(kind, old, form, v) ==
  IF kind # "either" /\ old # dir.created THEN Refuse.duplicate
  ELSE [old EXCEPT ![IF form = "script" THEN 2 ELSE 1] = v]

Set(kind, old, form, v) ==
  CASE kind \in Scripted -> SetForm(kind, old, form, v)
    [] kind = "unset" -> SetUnset(old, v)
    [] kind = "null"  -> SetNull(old, v)
    [] kind = "push"  -> Push(old, v)
    [] kind = "add"   -> Add(old, v)
    [] kind = "mask"  -> SetMask(old, v)
    [] kind = "last"  -> <<v>>
    [] OTHER          -> old

-----------------------------------------------------------------------------
(* The structures and how they are merged.                                 *)

\* create_*_conf(): the memory is zeroed, some fields get NGX_CONF_UNSET.
Created(cmd, conf) ==
  (IF cmd.field \in conf.create THEN Unset ELSE Null) \o (IF cmd.kind \in Scripted THEN Null ELSE <<>>)

\* What merge_*_conf() does with a field, by the macro or code it uses.
MergeKind(field, merge) ==
  CASE field \in merge.unset   -> "unset"
    [] field \in merge.null    -> "null"
    [] field \in merge.inherit -> "inherit"
    [] OTHER                   -> "not"

Kept(module, cmd, conf) ==
  [type |-> module.type, cmd |-> cmd, created |-> Created(cmd, conf),
   merged |-> MergeKind(cmd.field, conf.merge)]

\* The directives of a module with the structures its handlers make of them.
DirectivesOf(module) ==
  {Kept(module, c, IF c.conf \in DOMAIN module.confs THEN module.confs[c.conf]
                   ELSE [create |-> {}, merge |-> NotMerged]) : c \in module.commands}

\* The level whose structure a directive in block l writes: cf->ctx points to
\* the one main structure, to the server's and to the block's own.
StructLevel(l) ==
  CASE dir.type = "core"     -> 1
    [] dir.cmd.conf = "main" -> 2
    [] dir.cmd.conf = "srv"  -> IF l > 3 THEN 3 ELSE l
    [] OTHER                 -> l


\* The ngx_conf_merge_*_value() macros: the field of conf, after prev was merged
\* into it.
MergeValue(mark, prev, conf) ==
  IF conf # mark THEN conf ELSE IF prev = mark THEN Default ELSE prev

\* The merge functions of ngx_http_proxy_module.c and its like and of
\* ngx_http_image_filter_module.c merge the two fields apart; only where the
\* store is "off" the other one is not looked at.
MergeScripted(prev, conf) ==
  LET script == IF conf[2] = Null[1] THEN prev[2] ELSE conf[2]
      outer  == IF conf[1] = Null[1] THEN prev[1] ELSE conf[1]
  IN  CASE dir.cmd.kind = "pass" -> <<outer, script>>
        [] dir.cmd.kind = "store" /\ conf[1] = "off" -> conf
        [] OTHER -> MergeValue(Unset, <<prev[1]>>, <<conf[1]>>) \o <<script>>

\* ngx_http_proxy_handler(), ngx_http_upstream_store() and
\* ngx_http_image_filter_get_value(): what a request takes of the two.
Used(v) == IF dir.cmd.kind \in Scripted THEN IF v[2] # Null[1] THEN <<v[2]>> ELSE <<v[1]>> ELSE v

MergeField(prev, conf) ==
  CASE dir.cmd.kind \in Scripted -> MergeScripted(prev, conf)
    [] dir.merged = "unset" -> MergeValue(Unset, prev, conf)
    [] dir.merged = "null"  -> MergeValue(Null, prev, conf)
    [] dir.merged = "inherit" /\ conf \in {Unset, Null} -> prev
    [] OTHER -> conf

\* init_main_conf() and init_conf(): there is nothing outside.
InitConf(v) == MergeField(dir.created, v)

\* ngx_http_merge_servers() and ngx_mail_block(): the outermost structure, which
\* stays as it is, into the server's.
MergeServers(v) == [v EXCEPT ![3] = MergeField(v[2], v[3])]

\* ngx_http_merge_locations(): every location's, after the one around it.
MergeLocations(v) ==
  LET merge[l \in 3 .. MaxDepth] ==
        IF l = 3 THEN MergeServers(v)
        ELSE [merge[l - 1] EXCEPT ![l] = MergeField(merge[l - 1][l - 1], v[l])]
  IN  merge[MaxDepth]

\* The end of ngx_http_block(), ngx_mail_block(), ngx_events_block() and of the
\* file.
Merge(v) ==
  CASE StructLevel(MaxDepth) < 3 -> [v EXCEPT ![StructLevel(1)] = InitConf(@)]
    [] dir.cmd.conf = "srv"      -> MergeServers(v)
    [] OTHER                     -> MergeLocations(v)

-----------------------------------------------------------------------------
(* Parsing.                                                                *)

Levels == 1 .. MaxDepth

Init ==
  /\ dir \in UNION {DirectivesOf(m) : m \in Range(NgxModules)}
  /\ blocks = <<"main">> /\ cur = 1
  /\ val = [l \in Levels |-> dir.created]
  /\ given = [l \in Levels |-> <<>>]
  /\ refused = "" /\ done = FALSE

\* A block directive with its handler: the structures of the block are created
\* and the block is parsed with another cf->cmd_type.
Block(name, nargs, becomes) ==
  /\ refused = "" /\ ~done /\ cur = Len(blocks) /\ cur < MaxDepth
  /\ ConfHandler(name, blocks[cur], nargs, TRUE).rc = "ok"
  /\ ModuleType(becomes) = dir.type
  /\ blocks' = Append(blocks, becomes)
  /\ cur' = cur + 1
  /\ val' = [val EXCEPT ![cur + 1] = dir.created]
  /\ UNCHANGED <<dir, given, refused, done>>

EventsBlock   == Block("events", 0, "events")
HttpBlock     == Block("http", 0, "http")
HttpServer    == blocks[cur] = "http" /\ Block("server", 0, "server")
Location      == Block("location", 1, "location")
UpstreamBlock == Block("upstream", 1, "upstream")
LimitExcept   == Block("limit_except", 1, "limit")
\* the core location of a server has no name
RewriteIf     == Block("if", 1, IF blocks[cur] \in {"server", "sif"} THEN "sif" ELSE "lif")
MailBlock     == Block("mail", 0, "mail")
MailServer    == blocks[cur] = "mail" /\ Block("server", 0, "mserver")

Words == [off      |-> <<"off", "off", "off", "off">>,
          constant |-> <<"first", "second", "third", "fourth">>,
          script   |-> <<"$first", "$second", "$third", "$fourth">>]
Times == Len(FoldSeq(LAMBDA s, acc : acc \o s, <<>>, given))

\* The directive stands in the current block.
Give ==
  /\ refused = "" /\ ~done
  /\ Allowed(dir.cmd, blocks[cur]) /\ ModuleType(blocks[cur]) = dir.type
  /\ Times < MaxGiven
  /\ \E h \in {ConfHandler(dir.cmd.name, blocks[cur], CHOOSE k \in dir.cmd.args : TRUE,
                           Braced(dir.cmd))} :
     \E form \in Forms(dir.cmd.kind) :
     LET l == StructLevel(cur)
         v == Words[form][Times + 1]
         s == Set(dir.cmd.kind, val[l], form, v)
     IN  CASE h.rc # "ok" -> refused' = h.rc /\ UNCHANGED <<val, given>>
           [] h.rc = "ok" /\ h.cmd # dir.cmd -> refused' = "other" /\ UNCHANGED <<val, given>>
           [] h.rc = "ok" /\ h.cmd = dir.cmd /\ s \in Range(Refuse) ->
                refused' = s[1] /\ UNCHANGED <<val, given>>
           [] OTHER -> /\ val' = [val EXCEPT ![l] = s]
                       /\ given' = [given EXCEPT ![l] = Append(@, v)]
                       /\ refused' = ""
  /\ UNCHANGED <<dir, blocks, cur, done>>

\* "}": NGX_CONF_BLOCK_DONE, or the end of the file.
Close ==
  /\ refused = "" /\ ~done
  /\ IF cur > 1 THEN cur' = cur - 1 /\ done' = FALSE /\ val' = val
                ELSE cur' = 1 /\ done' = TRUE /\ val' = Merge(val)
  /\ UNCHANGED <<dir, blocks, given, refused>>

Next ==
  \/ Give \/ Close
  \/ EventsBlock
  \/ HttpBlock \/ HttpServer \/ Location \/ UpstreamBlock \/ LimitExcept \/ RewriteIf
  \/ MailBlock \/ MailServer

Spec == Init /\ [][Next]_vars

-----------------------------------------------------------------------------
(* Properties.                                                             *)

Single == {"unset", "null", "pass", "store"}
Followed == dir.cmd.kind \notin {"own", "block", "multi"}

\* proxy_bind and its like, and try_files, are never merged.
NotInherited == {"local", "try_files"}

\* ngx_http_upstream_hide_headers_hash() itself looks for NGX_CONF_UNSET_PTR,
\* ngx_http_userid_create_uid() for a service that is NGX_CONF_UNSET.
CheckedAtUse == {"pass_headers", "hide_headers", "service"}

\* A directive is found in every block where its table allows it, whatever
\* modules come before its own; the first time it is given the field has the
\* mark its handler looks for; only the second value for the same structure is
\* refused as a duplicate.
Usable ==
  \/ refused = ""
  \/ /\ refused = "duplicate"
     /\ dir.cmd.kind \in Single
     /\ given[StructLevel(cur)] # <<>>

Holders(l) == {k \in 2 .. l : given[k] # <<>>}

Nearest(l) == CHOOSE k \in Holders(l) : \A j \in Holders(l) : j <= k

\* The blocks up to l whose script is not shut off by an "off" further in.
ScriptsOf(k) == SelectSeq(given[k], LAMBDA v : v \in Range(Words.script))
ScriptHolders(l) ==
  {k \in 2 .. l : ScriptsOf(k) # <<>> /\ \A j \in (k + 1) .. l : "off" \notin Range(given[j])}

Expected(l) ==
  LET n == Nearest(l)
      scripts == ScriptHolders(n)
  IN  CASE dir.cmd.kind \in Scripted /\ scripts # {} -> <<Last(ScriptsOf(Max(scripts)))>>
        [] dir.cmd.kind \in Scripted \cup {"last"} /\ scripts = {} -> <<Last(given[n])>>
        [] OTHER -> given[n]

\* After merging, a server or location works with the value of the innermost
\* block around it in which the directive was given, before or after that
\* server or location in the file; without one, never with NGX_CONF_UNSET.
\* There is one exception.  A constant *_pass, *_store or number of
\* image_filter_* does not displace a script of a block further out (or one
\* before it in the same block, for image_filter_*): the code merges the two
\* fields apart and the script is used.
Inherits ==
  done /\ Followed /\ StructLevel(MaxDepth) >= 3 =>
    \A l \in 3 .. StructLevel(Len(blocks)) :
      /\ Holders(l) # {} /\ dir.cmd.field \notin NotInherited => Used(val[l]) = Expected(l)
      /\ Holders(l) = {} /\ dir.cmd.field \notin CheckedAtUse => Used(val[l]) # Unset
      /\ given[l] # <<>> => Used(val[l]) = Expected(l)
==============================================================================
