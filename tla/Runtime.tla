------------------------------- MODULE Runtime -------------------------------
(***************************************************************************)
(* The runtime state of runtime.py: for each logical channel, the file     *)
(* pySim believes to be selected, and beside it the file that the card has *)
(* selected on that channel.  A command of pySim-shell is one step; it may *)
(* send many SELECTs, of which any may be refused.                         *)
(*                                                                         *)
(* A file is the path of identifiers from the MF to it: FIDs, or the AID   *)
(* of an application.  A file that probe_file has added gets the path at   *)
(* which it was added, which need not be the one it has on the card: a     *)
(* card also selects the DFs next to the current one.                      *)
(***************************************************************************)
EXTENDS Naturals, FiniteSets, SequencesExt

CONSTANTS
  Apps,          \* AIDs of the applications
  AppsWithoutFs, \* those whose ADF has has_fs False
  Profile,       \* the files of the card profile: path -> "df" or "ef"
  Card,          \* the files of the card at the beginning: path -> kind
  Channels,      \* logical channels, 0 the basic one
  Names,         \* identifiers the user may enter
  NamePaths,     \* paths of several of them that the user may enter
  Refusable,     \* files of which the card may refuse the SELECT
  CreateIn,      \* DFs of the card in which the user creates a DF,
  NewFid,        \* with this FID
  MaxProbed,     \* bound: how many files probe_file adds
  None

MF == <<"3f00">>
IsADF(f) == Len(f) = 2 /\ f[2] \in Apps
Parent(f) == IF f = MF THEN MF ELSE Front(f)
KnownApps == {f \in DOMAIN Profile : IsADF(f)}
Prefix(f, k) == SubSeq(f, 1, k)

-----------------------------------------------------------------------------
(* The card *)

CardDf(T, g) == IF T[g] = "df" THEN g ELSE Parent(g)

\* What the FID of a SELECT may refer to: the MF, the current DF, its parent,
\* its children and the DFs beside it; but an ADF has no FID and no parent,
\* and an application without file system selects nothing by FID.
InReach(T, g) ==
  LET df == CardDf(T, g) IN
  {f \in DOMAIN T :
     /\ IsADF(df) => df[2] \notin AppsWithoutFs
     /\ ~IsADF(f)
     /\ \/ f \in {MF, df}
        \/ f # MF /\ Parent(f) = df
        \/ /\ ~IsADF(df)
           /\ f = Parent(df) \/ (f # MF /\ Parent(f) = Parent(df) /\ T[f] = "df")}

\* The file that SELECT yields with the card at g: at most one.
FoundByFid(T, g, fid) == {f \in InReach(T, g) : Last(f) = fid}
Found(T, g, f) == IF IsADF(f) THEN {f} \cap DOMAIN T ELSE FoundByFid(T, g, Last(f))
OneOf(s) == CHOOSE g \in s : TRUE

\* The file that the card has selected after each SELECT along a path from g
\* on: none from the one on that it does not find or refuses.
CardWalk(T, no, g, path) ==
  LET w[i \in 0 .. Len(path)] ==
        IF i = 0 THEN {g} ELSE (UNION {Found(T, h, path[i]) : h \in w[i - 1]}) \ no
  IN w

\* No two files that one FID may refer to (ETSI TS 102 221 8.3).
FidsApart(T) ==
  \A g \in DOMAIN T : \A h, k \in InReach(T, g) : Last(h) = Last(k) => h = k

\* An FID tells whether a file is a DF (TS 102 221 13.1).
SameKinds(S, T) == \A f \in DOMAIN S, g \in DOMAIN T : Last(f) = Last(g) => S[f] = T[g]

\* Files lie in DFs, applications in the MF; only they have AIDs, and only the
\* MF has its FID.
LegalPath(f) ==
  /\ f # <<>> /\ f[1] = "3f00"
  /\ \A i \in 2 .. Len(f) : f[i] # "3f00" /\ (f[i] \in Apps => i = 2)
FileTree(T) ==
  /\ T \in [DOMAIN T -> {"df", "ef"}]
  /\ MF \in DOMAIN T /\ T[MF] = "df"
  /\ \A f \in DOMAIN T :
       /\ f \in Seq(STRING) /\ LegalPath(f) /\ (IsADF(f) => T[f] = "df")
       /\ \A k \in 1 .. Len(f) - 1 : Prefix(f, k) \in DOMAIN T /\ T[Prefix(f, k)] = "df"

\* Of the applications of the profile those are known that the card has.
ASSUME RuntimeAssumption ==
  /\ 0 \in Channels
  /\ Apps \subseteq STRING \ {"3f00"} /\ AppsWithoutFs \subseteq Apps
  /\ FileTree(Profile) /\ FileTree(Card) /\ KnownApps \subseteq DOMAIN Card
  /\ FidsApart(Card) /\ SameKinds(Card, Card) /\ SameKinds(Profile, Card)
  /\ Names \subseteq STRING /\ NamePaths \subseteq Seq(STRING)
  /\ NewFid \in STRING \ (Apps \cup {"3f00"})
  /\ \A T \in {Profile, Card} : \A f \in DOMAIN T : Last(f) = NewFid => T[f] = "df"
  /\ MaxProbed \in Nat /\ None \notin KnownApps
  \* The MF is always selectable; without a file system no file is created.
  /\ MF \notin Refusable
  /\ \A d \in CreateIn : IsADF(d) => d[2] \notin AppsWithoutFs

VARIABLES
  tree,    \* RuntimeState.mf: the files pySim knows
  lchan,   \* RuntimeState.lchan: open channel -> RuntimeLchan
  cur,     \* the channel pySim-shell works on
  files,   \* the files of the card
  current, \* open channel -> the file the card has selected on it
  refused, \* the files whose SELECT the card refuses at present
  raised,  \* did the last command raise an exception
  astray   \* history: has a command left the card at a file it selected
           \* without pySim knowing

runtime == <<tree, lchan, cur, files, current, refused, raised, astray>>

-----------------------------------------------------------------------------
(* CardFile *)

get_cwd(T, f) == IF T[f] = "df" THEN f ELSE Parent(f)

\* What get_selectables offers from file f: itself and all above it, the
\* applications, and the other files of its DF.
global_selectables(f) == {SubSeq(f, 1, i) : i \in 1 .. Len(f)} \cup KnownApps
children(T, f) == {g \in DOMAIN T \ {f, MF} : Parent(g) = get_cwd(T, f)}

\* The file that id stands for, if any: the children go first, then those above.
named(T, f, id) ==
  LET of(s) == {g \in s : Last(g) = id}
      above == of(global_selectables(f))
  IN
  IF of(children(T, f)) # {} THEN of(children(T, f))
  ELSE {g \in above : \A h \in above : Len(g) <= Len(h)}

\* An application may be selected from anywhere.
clip_path(path) ==
  LET adfs == {i \in 1 .. Len(path) : IsADF(path[i])} IN
  IF adfs = {} THEN path
  ELSE SubSeq(path, CHOOSE i \in adfs : \A j \in adfs : j <= i, Len(path))

\* Up to the nearest ancestor that lies above the target, and down again.
build_select_path_to(f, target) ==
  LET common == CHOOSE k \in 1 .. Len(f) :
        /\ k < Len(target) /\ SubSeq(f, 1, k) = SubSeq(target, 1, k)
        /\ \A j \in k + 1 .. Len(f) :
             j >= Len(target) \/ SubSeq(f, 1, j) # SubSeq(target, 1, j)
      up == [i \in 1 .. Len(f) - common |-> SubSeq(f, 1, Len(f) - i)]
      down == [i \in 1 .. Len(target) - common |-> SubSeq(target, 1, common + i)]
  IN IF target = MF THEN <<MF>> ELSE clip_path(up \o down)

-----------------------------------------------------------------------------
(* RuntimeLchan.  A command works on a record of all it may change, and of *)
(* whether the card has selected a file that pySim does not know of (lost): *)
(* until it finds the next one that pySim selects.                         *)

Lchan(sel, adf, fcp) == [sel |-> sel, adf |-> adf, fcp |-> fcp]

\* _select_post with a file; fcp names the file that the FCP describes.
_select_post(st, f, fcp) ==
  [st EXCEPT !.sel = f, !.adf = IF IsADF(f) THEN f ELSE @, !.fcp = fcp]

\* Faulty: after an SwMatchError nothing is kept of what was selected.
Reached_Forgets(st, path, walk, n) ==
  IF n < Len(path) THEN [st EXCEPT !.at = OneOf(walk[n]), !.raised = TRUE, !.lost = @ /\ n = 0]
  ELSE [_select_post(st, IF n = 0 THEN st.sel ELSE path[n], OneOf(walk[n]))
          EXCEPT !.at = OneOf(walk[n]), !.raised = FALSE, !.lost = @ /\ n = 0]

\* The last file that could be selected is the selected one; if there are more,
\* an SwMatchError has ended the loop.
Reached(st, path, walk, n) ==
  [_select_post(st, IF n = 0 THEN st.sel ELSE path[n], IF n = 0 THEN st.fcp ELSE OneOf(walk[n]))
     EXCEPT !.at = OneOf(walk[n]), !.raised = n < Len(path), !.lost = @ /\ n = 0]

GoTo(st, f) ==
  LET path == build_select_path_to(st.sel, f)
      walk == CardWalk(st.files, refused, st.at, path)
      n == CHOOSE n \in 0 .. Len(path) :
             walk[n] # {} /\ \A m \in n + 1 .. Len(path) : walk[m] = {}
  IN Reached(st, path, walk, n)

GoOnTo(st, f) == IF st.raised THEN st ELSE GoTo(st, f)

OrBackTo(st, f) == IF st.raised THEN [GoTo(st, f) EXCEPT !.raised = TRUE] ELSE st

AppsWithFs == {a \in KnownApps : a[2] \notin AppsWithoutFs}
Trapped(st, f) ==
  ~IsADF(f) /\ st.adf # None /\ st.adf[2] \in AppsWithoutFs /\ AppsWithFs # {}

\* Faulty: no way out of an application without file system.
EscapeApp_Stays(st, f) == [st EXCEPT !.raised = FALSE]

\* Out of an application without file system: another application is
\* selected first, or, if that fails, this one again.
EscapeApp(st, f) ==
  IF Trapped(st, f) THEN OrBackTo(GoTo(st, OneOf(AppsWithFs)), st.sel)
  ELSE [st EXCEPT !.raised = FALSE]

select_file(st, f) == GoOnTo(EscapeApp(st, f), f)

Added(T, f, kind) == [g \in DOMAIN T \cup {f} |-> IF g = f THEN kind ELSE T[g]]

\* What the card has found is added to the selected DF.  An EF has no
\* add_files: the exception comes after the card has selected the new file.
Probed(st, id, found) ==
  IF found = {} THEN [st EXCEPT !.raised = TRUE]
  ELSE IF st.tree[st.sel] = "ef"
       THEN [st EXCEPT !.at = OneOf(found), !.raised = TRUE, !.lost = TRUE]
  ELSE _select_post([st EXCEPT !.at = OneOf(found),
                               !.tree = Added(@, Append(st.sel, id), st.files[OneOf(found)])],
                    Append(st.sel, id), OneOf(found))

\* Only an unknown FID is tried on the card.
probe_file(st, id) ==
  Probed(st, id, IF id \in Apps THEN {} ELSE FoundByFid(st.files, st.at, id) \ refused)

\* Faulty: after a failure the runtime goes back, the card does not.
GoBack_NotSent(st, prev) == IF st.raised THEN [st EXCEPT !.sel = prev] ELSE st

\* "if any intermediate step fails, we must be able to go back"
GoBack(st, prev) ==
  IF st.raised THEN [select_file(st, prev) EXCEPT !.raised = TRUE] ELSE st

select(st, id) ==
  GoBack(IF named(st.tree, st.sel, id) # {}
           THEN select_file(st, OneOf(named(st.tree, st.sel, id)))
           ELSE probe_file([st EXCEPT !.raised = FALSE], id),
         st.sel)

selectPath(st, ids) ==
  LET after[n \in 0 .. Len(ids)] ==
        IF n = 0 THEN st
        ELSE IF after[n - 1].raised THEN after[n - 1] ELSE select(after[n - 1], ids[n])
  IN GoBack(after[Len(ids)], st.sel)

-----------------------------------------------------------------------------
(* Commands of pySim-shell *)

State(ch) ==
  [sel |-> lchan[ch].sel, adf |-> lchan[ch].adf, fcp |-> lchan[ch].fcp,
   at |-> current[ch], files |-> files, tree |-> tree, raised |-> FALSE, lost |-> FALSE]

\* The current channel may be one that was closed: the card refuses all.
CurrentOpen == cur \in DOMAIN lchan

EndsIn(r) ==
  /\ Cardinality(DOMAIN r.tree \ DOMAIN Profile) <= MaxProbed
  /\ lchan' = [lchan EXCEPT ![cur] = Lchan(r.sel, r.adf, r.fcp)]
  /\ current' = [current EXCEPT ![cur] = r.at]
  /\ files' = r.files
  /\ tree' = r.tree
  /\ raised' = r.raised
  /\ astray' = (astray \/ r.lost)

do_select(id) ==
  /\ CurrentOpen
  /\ EndsIn(select(State(cur), id))
  /\ UNCHANGED <<cur, refused>>

do_select_path(ids) ==
  /\ CurrentOpen
  /\ EndsIn(selectPath(State(cur), ids))
  /\ UNCHANGED <<cur, refused>>

\* The card selects the DF it has created, and pySim the one before again.  The
\* card accepts no FID that would be ambiguous.
do_create_df ==
  LET f == Append(CardDf(files, current[cur]), NewFid) IN
  /\ CurrentOpen
  /\ Parent(f) \in CreateIn /\ f \notin DOMAIN files
  /\ FidsApart(Added(files, f, "df"))
  /\ EndsIn(select_file([State(cur) EXCEPT !.at = f, !.files = Added(@, f, "df"), !.lost = TRUE],
                        lchan[cur].sel))
  /\ UNCHANGED <<cur, refused>>

\* Faulty: the file itself is taken over, not its DF.
add_lchan_KeepsFile == IF cur = 0 THEN Lchan(MF, None, None) ELSE [lchan[cur] EXCEPT !.fcp = None]

\* From the basic channel a new one starts at the MF, from another one in its DF.
add_lchan ==
  IF cur = 0 THEN Lchan(MF, None, None)
  ELSE Lchan(get_cwd(tree, lchan[cur].sel), lchan[cur].adf, None)

\* The card does the same.
do_open_channel(ch) ==
  /\ CurrentOpen
  /\ ch \notin DOMAIN current
  /\ current' = Added(current, ch, IF cur = 0 THEN MF ELSE CardDf(files, current[cur]))
  /\ lchan' = Added(lchan, ch, add_lchan)
  /\ raised' = FALSE
  /\ UNCHANGED <<tree, cur, files, refused, astray>>

do_close_channel(ch) ==
  /\ CurrentOpen
  /\ ch \in DOMAIN current \ {0}
  /\ current' = Restrict(current, DOMAIN current \ {ch})
  /\ lchan' = Restrict(lchan, DOMAIN lchan \ {ch})
  /\ raised' = FALSE
  /\ UNCHANGED <<tree, cur, files, refused, astray>>

do_switch_channel(ch) ==
  /\ ch \in DOMAIN lchan
  /\ cur' = ch
  /\ raised' = FALSE
  /\ UNCHANGED <<tree, lchan, files, current, refused, astray>>

\* Faulty: the other channels stay.
ResetLchan_KeepsOthers(r) ==
  [lchan EXCEPT ![0] = Lchan(r.sel, IF r.raised THEN r.adf ELSE None, r.fcp)]

ResetLchan(r) == [ch \in {0} |-> Lchan(r.sel, IF r.raised THEN r.adf ELSE None, r.fcp)]

ResetTo(r) ==
  /\ current' = [ch \in {0} |-> r.at]
  /\ lchan' = ResetLchan(r)
  /\ tree' = r.tree
  /\ raised' = r.raised

\* RuntimeState.reset: the card is at the MF, on the basic channel only.
do_reset ==
  /\ ResetTo(select([State(0) EXCEPT !.at = MF], Last(MF)))
  /\ cur' = 0
  /\ UNCHANGED <<files, refused, astray>>

\* The card refuses another file than before, or none.
Refuse ==
  /\ refused' \in {{f} : f \in Refusable} \cup {{}}
  /\ refused' # refused
  /\ raised' = FALSE
  /\ UNCHANGED <<tree, lchan, cur, files, current, astray>>

RuntimeInit ==
  /\ tree = Profile /\ files = Card
  /\ lchan = [ch \in {0} |-> Lchan(MF, None, MF)]
  /\ current = [ch \in {0} |-> MF]
  /\ cur = 0 /\ refused = {} /\ raised = FALSE /\ astray = FALSE

RuntimeNext ==
  \/ \E id \in Names : do_select(id)
  \/ \E ids \in NamePaths : do_select_path(ids)
  \/ do_create_df
  \/ \E ch \in Channels :
       do_open_channel(ch) \/ do_close_channel(ch) \/ do_switch_channel(ch)
  \/ do_reset
  \/ Refuse

RuntimeSpec == RuntimeInit /\ [][RuntimeNext]_runtime

-----------------------------------------------------------------------------
(* Properties *)

\* The files that a path of pySim's leads to on the card.
Resolved(f) == CardWalk(files, {}, MF, [i \in 1 .. Len(f) |-> Prefix(f, i)])[Len(f)]

\* What the way out of an application without file system needs: another one.
AppsAssured == (\E a \in KnownApps : a[2] \in AppsWithoutFs) => AppsWithFs # {}

\* As two places of the code demand it: "if any intermediate step fails, we must be
\* able to go back where we were" (runtime.py:439), and the newly created file, which
\* "is automatically selected", is left again (ts_102_222.py:208).  Neither looks
\* whether the card takes the SELECTs of the way back, whose first one it may refuse
\* or, two levels below, not find.
AlwaysOnCard ==
  /\ DOMAIN lchan = DOMAIN current
  /\ \A ch \in DOMAIN lchan :
       /\ Resolved(lchan[ch].sel) = {current[ch]}
       /\ lchan[ch].fcp \in {None, current[ch]}

\* Unless a way back has failed at its very first SELECT, from a file that pySim
\* does not know of, pySim and the card have the same channels open, also after a
\* reset, and on each of them the file that pySim believes to be selected is the one
\* the card has selected, and the FCP it keeps, from which it takes the size of the
\* file, is that file's: after any SELECT of a path or probe was refused, after the
\* way back was refused halfway, and on channels opened from one another
\* (runtime.py:413-430, 439-470).
SelectedOnCard == ~astray => AlwaysOnCard

\* However it got there, pySim can select the MF again, from any file of any
\* channel, when the card refuses nothing: an application without file
\* system is no trap (runtime.py:383-398).
NotTrapped ==
  refused = {} /\ ~astray => \A ch \in DOMAIN lchan : ~select(State(ch), Last(MF)).raised

\* A command that failed although the card refuses nothing that exists has
\* brought pySim and the card back to where they were (runtime.py:436-470).
FailedGoesBack ==
  [][raised' /\ refused = {} /\ ~astray' /\ cur' = cur =>
       lchan'[cur].sel = lchan[cur].sel /\ current'[cur] = current[cur]]_runtime
=============================================================================
