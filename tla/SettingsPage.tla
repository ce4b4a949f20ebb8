---------------------------- MODULE SettingsPage ----------------------------
(***************************************************************************)
(* The settings page around its sections: which section the address, the   *)
(* menu and the user's role let it show; the forms of the profile section, *)
(* for the display name, the persona and the password; and the theme.  A   *)
(* query is fetched in one step here, and at any time: QueryCache has what *)
(* lies between.                                                           *)
(***************************************************************************)
EXTENDS Naturals, Sequences, FiniteSets

CONSTANTS None,
          Sections, OwnerOnly, Profile, Appearance,
          Texts, Empty,                \* of a display name or a persona
          Passwords, Limit,            \* attempts at a password change that the server lets through
          Themes, MaxTurns

VARIABLES role, docs, password,                    \* the server's
          me, persona,                             \* cached
          sec, hash, asked, form, mounts, calls, theme, turns

vars == <<role, docs, password, me, persona, sec, hash, asked, form, mounts, calls, theme, turns>>
server == <<role, docs, password>>
settled == <<sec, me, persona, form, mounts, asked>>

Kinds == {"name", "persona"}
Forms == Kinds \cup {"password"}

\* visibleSectionIds; until the user's own record is there, the role is a member's.
VisibleSectionIds(r) == IF r = "owner" THEN Sections ELSE Sections \ OwnerOnly
RoleOf(m) == IF m = None THEN "member" ELSE m.role
ActiveSection(s, m) == IF s \in VisibleSectionIds(RoleOf(m)) THEN s ELSE Profile

NoPasswords == [cur |-> Empty, new |-> Empty, conf |-> Empty]

\* The profile section as it mounts: its effects copy what is cached into the boxes.
MountedForm(m, p) ==
    [text |-> [name |-> IF m = None THEN Empty ELSE m.name,
               persona |-> IF p = None THEN Empty ELSE p],
     pass |-> NoPasswords, note |-> [k \in Forms |-> "none"],
     sent |-> {}, own |-> Empty, typedLate |-> FALSE]

\* Its effects as the cached records change: another value than before replaces the box's.
Refreshed(f, m, p) ==
    [f EXCEPT !.text.name = IF m # None /\ (me = None \/ m.name # me.name) THEN m.name ELSE @,
              !.text.persona = IF p # None /\ p # persona THEN p ELSE @]

\* Mutant: a section is refused before the role is known.
RefusesUnknown(s, m) == s \notin VisibleSectionIds(RoleOf(m))

Refuses(s, m) == m # None /\ s \notin VisibleSectionIds(m.role)

\* The page with another section, or other cached records: what the role forbids is left for the
\* profile, in the address as well, and the profile section mounts and unmounts.
Settle(s, h, m, p) ==
    LET stay == ~Refuses(s, m)
        s2 == IF stay THEN s ELSE Profile
        shown == ActiveSection(s2, m)
    IN  /\ sec' = s2 /\ hash' = IF stay THEN h ELSE Profile
        /\ me' = m /\ persona' = p
        /\ form' = IF shown # Profile THEN None
                   ELSE IF form = None THEN MountedForm(m, p) ELSE Refreshed(form, m, p)
        /\ mounts' = IF form = None /\ shown = Profile THEN mounts + 1 ELSE mounts

\* A section was asked for; a role that is known and forbids it is why it is not shown.
Ask(id, m) == asked' = [id |-> id, refused |-> m # None /\ id \notin VisibleSectionIds(m.role)]

SettingsInit ==
    /\ role \in {"owner", "member"}
    /\ docs = [k \in Kinds |-> Empty]
    /\ password = [now |-> CHOOSE p \in Passwords : TRUE, hits |-> 0]
    /\ me = None /\ persona = None
    /\ hash \in Sections \cup {None}
    /\ sec = (IF hash = None THEN Profile ELSE hash)
    /\ asked = [id |-> sec, refused |-> FALSE]
    /\ form = IF ActiveSection(sec, None) = Profile THEN MountedForm(None, None) ELSE None
    /\ mounts = 1 /\ calls = <<>>
    /\ \E t \in Themes : theme = [chosen |-> t, drawn |-> t, stored |-> None]
    /\ turns = 0

Turn == turns < MaxTurns /\ turns' = turns + 1

-----------------------------------------------------------------------------
(* Sections *)

\* The address changes; one that names no section is left as it is.
HashChanges(h) ==
    /\ Turn /\ h # hash
    /\ IF h = None THEN hash' = h /\ UNCHANGED settled
       ELSE Settle(h, h, me, persona) /\ Ask(h, me)
    /\ UNCHANGED <<role, docs, password, calls, theme>>

\* Mutant: the address is left as it was.
SelectsSilently(id) == Settle(id, hash, me, persona)

Selects(id) == Settle(id, id, me, persona)

SelectSection(id) ==
    /\ Turn /\ id \in VisibleSectionIds(RoleOf(me)) \ {sec}
    /\ Selects(id) /\ Ask(id, me)
    /\ UNCHANGED <<role, docs, password, calls, theme>>

MeComes ==
    /\ me # [role |-> role, name |-> docs["name"]]
    /\ Settle(sec, hash, [role |-> role, name |-> docs["name"]], persona)
    /\ asked' = [asked EXCEPT !.refused = @ \/ asked.id \notin VisibleSectionIds(role)]
    /\ UNCHANGED <<role, docs, password, calls, theme, turns>>

PersonaComes ==
    /\ persona # docs["persona"]
    /\ Settle(sec, hash, me, docs["persona"])
    /\ UNCHANGED <<role, docs, password, asked, calls, theme, turns>>

\* Somebody else changes the user's role, or another page of his one of the texts.
RoleChanges ==
    /\ Turn /\ role' = (IF role = "owner" THEN "member" ELSE "owner")
    /\ UNCHANGED <<docs, password, settled, hash, calls, theme>>

TextChanges(k, t) ==
    /\ Turn /\ t # docs[k] /\ docs' = [docs EXCEPT ![k] = t]
    /\ UNCHANGED <<role, password, settled, hash, calls, theme>>

\* The page is loaded again. Calls under way are still served, for nobody.
Reload ==
    /\ Turn
    /\ me' = None /\ persona' = None
    /\ sec' = (IF hash = None THEN Profile ELSE hash) /\ UNCHANGED hash
    /\ asked' = [id |-> sec', refused |-> FALSE]
    /\ form' = IF ActiveSection(sec', None) = Profile THEN MountedForm(None, None) ELSE None
    /\ mounts' = mounts + 1
    /\ theme' = IF theme.stored = None THEN theme
                ELSE [theme EXCEPT !.chosen = theme.stored, !.drawn = theme.stored]
    /\ UNCHANGED <<server, calls>>

-----------------------------------------------------------------------------
(* The forms.  own and typedLate tell, of the persona, which text the last *)
(* answer was about and whether one was typed while it was awaited.        *)

OnScreen == form # None /\ me # None
Pending(k) == \E i \in DOMAIN calls : calls[i].kind = k /\ calls[i].mount = mounts

\* Mutant: what was said of the text before stays.
TypedUnderNote(k, t) ==
    form' = [form EXCEPT !.text[k] = t, !.typedLate = IF k = "persona" THEN Pending(k) ELSE @]

\* Typing takes back what was said of a persona, not what was said of a name.
Typed(k, t) ==
    form' = [form EXCEPT !.text[k] = t, !.note["persona"] = IF k = "persona" THEN "none" ELSE @,
                         !.typedLate = IF k = "persona" THEN Pending(k) ELSE @]

Type(k, t) ==
    /\ OnScreen /\ Turn /\ t # form.text[k]
    /\ Typed(k, t)
    /\ UNCHANGED <<server, me, persona, sec, hash, asked, mounts, calls, theme>>

FillPasswords(c, n, k) ==
    /\ OnScreen /\ Turn
    /\ form' = [form EXCEPT !.pass = [cur |-> c, new |-> n, conf |-> k]]
    /\ UNCHANGED <<server, me, persona, sec, hash, asked, mounts, calls, theme>>

Call(k) ==
    [kind |-> k, mount |-> mounts, text |-> IF k \in Kinds THEN form.text[k] ELSE Empty,
     pass |-> IF k \in Kinds THEN NoPasswords ELSE form.pass,
     stage |-> "out", tries |-> 0, changed |-> 0]

\* A button is disabled while its call is out. Passwords that differ are not sent.
Submit(k) ==
    /\ OnScreen /\ ~Pending(k) /\ Turn
    /\ IF k = "password" /\ form.pass.new # form.pass.conf
       THEN form' = [form EXCEPT !.note[k] = "mismatch"] /\ UNCHANGED calls
       ELSE /\ form' = [form EXCEPT !.note[k] = "none", !.sent = @ \cup {k},
                                    !.typedLate = IF k = "persona" THEN FALSE ELSE @]
            /\ calls' = Append(calls, Call(k))
    /\ UNCHANGED <<server, me, persona, sec, hash, asked, mounts, theme>>

-----------------------------------------------------------------------------
(* The server. *)

ServeText(i) ==
    /\ i \in DOMAIN calls /\ calls[i].kind \in Kinds /\ calls[i].stage = "out"
    /\ docs' = [docs EXCEPT ![calls[i].kind] = calls[i].text]
    /\ calls' = [calls EXCEPT ![i].stage = "done"]
    /\ UNCHANGED <<role, password, settled, hash, theme, turns>>

\* change_password: attempts are counted before the current password is looked at.
ServePassword(i) ==
    /\ i \in DOMAIN calls /\ calls[i].kind = "password" /\ calls[i].stage = "out"
    /\ IF password.hits >= Limit
       THEN calls' = [calls EXCEPT ![i].stage = "many", ![i].tries = @ + 1] /\ UNCHANGED password
       ELSE IF calls[i].pass.cur # password.now
       THEN /\ password' = [password EXCEPT !.hits = @ + 1]
            /\ calls' = [calls EXCEPT ![i].stage = "wrong", ![i].tries = @ + 1]
       ELSE /\ password' = [now |-> calls[i].pass.new, hits |-> password.hits + 1]
            /\ calls' = [calls EXCEPT ![i].stage = "done", ![i].tries = @ + 1, ![i].changed = @ + 1]
    /\ UNCHANGED <<role, docs, settled, hash, theme, turns>>

\* The window of the limit passes.
HitsExpire ==
    /\ password.hits > 0 /\ Turn /\ password' = [password EXCEPT !.hits = 0]
    /\ UNCHANGED <<role, docs, settled, hash, calls, theme>>

-----------------------------------------------------------------------------
(* Answers. *)

\* Mutant: whatever did not succeed is asked again.
RetriesFailures(c) == c.stage # "out" /\ c.tries = 1

\* A 401 stands for a token that ran out as well: the client gets another and asks once more.
Retries(c) == c.stage = "wrong" /\ c.tries = 1

AskAgain(i) ==
    /\ i \in DOMAIN calls /\ calls[i].kind = "password" /\ Retries(calls[i])
    /\ calls' = [calls EXCEPT ![i].stage = "out"]
    /\ UNCHANGED <<server, settled, hash, theme, turns>>

Without(i) == SubSeq(calls, 1, i - 1) \o SubSeq(calls, i + 1, Len(calls))

\* Mutant: the form that is there now is told, whichever sent.
HeardByAny(c) == form # None

\* The callbacks of a form that was left are not run.
Heard(c) == form # None /\ c.mount = mounts

Noted(f, k, note) ==
    [f EXCEPT !.note[k] = note,
              !.pass = IF k = "password" /\ note = "saved" THEN NoPasswords ELSE @]

\* An answer: done, refused, or lost on its way or before it was served.
Returns(i) ==
    /\ i \in DOMAIN calls /\ ~(calls[i].kind = "password" /\ Retries(calls[i]))
    /\ LET c == calls[i]
       IN  \E note \in CASE c.stage = "out" -> {"failed"}
                         [] c.stage = "done" -> {"saved", "failed"}
                         [] OTHER -> {c.stage, "failed"} :
             /\ calls' = Without(i)
             /\ form' = IF ~Heard(c) THEN form
                        ELSE IF c.kind = "persona" /\ note = "saved"
                        THEN [Noted(form, c.kind, note) EXCEPT !.own = c.text]
                        ELSE Noted(form, c.kind, note)
    /\ UNCHANGED <<server, me, persona, sec, hash, asked, mounts, theme, turns>>

-----------------------------------------------------------------------------
(* The theme: the switch in the profile's menu, the cards of a section,    *)
(* and other tabs, which share what is stored only.                        *)

\* Mutant: stored, and drawn with the next load.
StoresOnly(t) == theme' = [theme EXCEPT !.chosen = t, !.stored = t]

SetTheme(t) == theme' = [chosen |-> t, drawn |-> t, stored |-> t]

ToggleTheme ==
    /\ Turn /\ \E t \in Themes \ {theme.chosen} : SetTheme(t)
    /\ UNCHANGED <<server, settled, hash, calls>>

PickTheme(t) ==
    /\ ActiveSection(sec, me) = Appearance /\ Turn /\ SetTheme(t)
    /\ UNCHANGED <<server, settled, hash, calls>>

OtherTabsTheme(t) ==
    /\ Turn /\ t # theme.stored /\ theme' = [theme EXCEPT !.stored = t]
    /\ UNCHANGED <<server, settled, hash, calls>>

-----------------------------------------------------------------------------
SettingsNext ==
    \/ \E h \in Sections \cup {None} : HashChanges(h)
    \/ \E id \in Sections : SelectSection(id)
    \/ MeComes
    \/ PersonaComes
    \/ RoleChanges
    \/ \E k \in Kinds, t \in Texts : TextChanges(k, t) \/ Type(k, t)
    \/ \E c, n, k \in Passwords : FillPasswords(c, n, k)
    \/ \E k \in Forms : Submit(k)
    \/ \E i \in DOMAIN calls : ServeText(i) \/ ServePassword(i) \/ AskAgain(i) \/ Returns(i)
    \/ HitsExpire
    \/ ToggleTheme
    \/ \E t \in Themes : PickTheme(t) \/ OtherTabsTheme(t)
    \/ Reload

-----------------------------------------------------------------------------
\* The section that was asked for last, by address or menu, is kept while the user's record is
\* fetched; only a role that is known and forbids it leads elsewhere.
DeepLinkKept == sec = asked.id \/ asked.refused

\* An address that names a section names the one that is selected.
AddressFollows == hash \in Sections => hash = sec

\* "Persona saved." is about the text in the box, or the text was typed while the answer was
\* awaited, or fetched since.
PersonaNoteHolds ==
    (form # None /\ form.note["persona"] = "saved") =>
        \/ form.text["persona"] = form.own
        \/ form.typedLate
        \/ form.text["persona"] = persona

\* A form reports on no call that was sent from a form before it.
NotesAreOwn ==
    form # None =>
        {k \in Forms : form.note[k] \in {"saved", "failed", "wrong", "many"}} \subseteq form.sent

\* One click changes the password once at most, though it may be sent twice.
PasswordChangedOnce == \A i \in DOMAIN calls : calls[i].changed <= 1 /\ calls[i].tries <= 2

\* The theme on the screen is the one the switch takes for chosen.
ThemeDrawn == theme.drawn = theme.chosen

SettingsSafe ==
    /\ DeepLinkKept
    /\ AddressFollows
    /\ PersonaNoteHolds
    /\ NotesAreOwn
    /\ PasswordChangedOnce
    /\ ThemeDrawn

=============================================================================
