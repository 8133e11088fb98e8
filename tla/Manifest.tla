------------------------------ MODULE Manifest -------------------------------
(***************************************************************************)
(* A check for a newer version (update_remote_check and                    *)
(* update_manifest_parse in libupdate/src/update_remote_check.c) and the   *)
(* search for a member of a JSON text that it relies on (json_mini.c).     *)
(*                                                                         *)
(* The search does not parse: it takes the first place where the name      *)
(* stands between quotes, whatever it is there, and wants a colon and a    *)
(* string behind it.  A manifest is therefore a sequence of tokens here;   *)
(* how a string is spelled is in Texts.                                    *)
(***************************************************************************)
EXTENDS Integers, Sequences, SequencesExt

CONSTANTS
    Members,    \* what a manifest is made of: a name, the kind of its value
                \* ("string", "number" or "object") and a string: the value,
                \* or the version an object inside names
    MaxMembers, \* bounds their number
    Locals,     \* UPDATE_APP_VERSION_STRING
    Numbers,    \* Numbers[s]: the up to three numbers sscanf finds in s
    Overlong,   \* values that do not fit their buffer
    UintValues  \* how many values an unsigned has, 2^32

ASSUME ManifestAssumption ==
    /\ \A m \in Members : m.kind \in {"string", "number", "object"}
    /\ \A s \in DOMAIN Numbers : Numbers[s] \in Seq(Int) /\ Len(Numbers[s]) <= 3
    /\ Locals \subseteq DOMAIN Numbers
    /\ \A m \in Members : {m.name, m.value} \subseteq DOMAIN Numbers
    /\ "version" \in DOMAIN Numbers
    /\ UintValues \in Nat \ {0}

VARIABLES
    manifest,   \* the members the server sent
    local,      \* the version of the application
    info,       \* update_info_t
    verdict     \* "none", "parsed", or what the check returned

manifestVars == <<manifest, local, info, verdict>>

NoText == ""
NoInfo == [version |-> NoText, download_url |-> NoText, checksum |-> NoText,
           description_format |-> NoText, description |-> NoText]

ManifestInit ==
    /\ manifest \in UNION {[1..n -> Members] : n \in 0..MaxMembers}
    /\ local \in Locals
    /\ info = NoInfo
    /\ verdict = "none"

Quote(s) == [type |-> "string", text |-> s]
Mark(c) == [type |-> c, text |-> NoText]
Colon == Mark("colon")

ValueTokens(m) ==
    CASE m.kind = "string" -> <<Quote(m.value)>>
      [] m.kind = "number" -> <<Mark("number")>>
      [] m.kind = "object" ->
             <<Mark("open"), Quote("version"), Colon, Quote(m.value), Mark("close")>>

MemberTokens(m) ==
    <<Quote(m.name), Colon>> \o ValueTokens(m) \o <<Mark("comma")>>

Tokens ==
    <<Mark("open")>> \o FlattenSeq([i \in DOMAIN manifest |-> MemberTokens(manifest[i])])

Missing == "no value"

\* Mutant: the closing quote is not part of what is looked for.
FindsPrefix(key) ==
    LET found == {i \in DOMAIN Tokens :
                     \/ Tokens[i] = Quote(key)
                     \/ /\ key = "description"
                        /\ Tokens[i] = Quote("description_format")}
        first == CHOOSE i \in found : \A j \in found : i <= j
    IN  IF /\ found # {}
           /\ Tokens[first + 1] = Colon
           /\ Tokens[first + 2].type = "string"
        THEN Tokens[first + 2].text
        ELSE Missing

\* find_string_value_start
FindString(key) ==
    LET found == {i \in DOMAIN Tokens : Tokens[i] = Quote(key)}
        first == CHOOSE i \in found : \A j \in found : i <= j
    IN  IF /\ found # {}
           /\ Tokens[first + 1] = Colon
           /\ Tokens[first + 2].type = "string"
        THEN Tokens[first + 2].text
        ELSE Missing

Required == {"version", "download_url", "checksum"}
Optional == {"description_format", "description"}

\* The rewritten notes are as long as the limit allows, or the check fails.
Parse ==
    /\ verdict = "none"
    /\ \/ /\ \A k \in Required : FindString(k) \notin {Missing} \cup Overlong
          /\ \A k \in Optional : FindString(k) \notin Overlong
          /\ info' = [version |-> FindString("version"),
                      download_url |-> FindString("download_url"),
                      checksum |-> FindString("checksum"),
                      description_format |->
                          IF FindString("description_format") = "html"
                          THEN "html" ELSE "plaintext",
                      description |->
                          IF FindString("description") = Missing
                          THEN NoText ELSE FindString("description")]
          /\ verdict' = "parsed"
       \/ /\ \/ \E k \in Required : FindString(k) \in {Missing} \cup Overlong
             \/ \E k \in Optional : FindString(k) \in Overlong
             \/ FindString("description") # Missing
          /\ verdict' = "error"
          /\ UNCHANGED info
    /\ UNCHANGED <<manifest, local>>

\* parse_semver3: missing numbers are 0, and %u keeps the low bits.
Version(s) ==
    [i \in 1..3 |->
        IF i <= Len(Numbers[s]) THEN Numbers[s][i] % UintValues ELSE 0]

\* Mutant: a higher number counts whatever stands before it.
NewerAnywhere(remote, own) == \E i \in 1..3 : remote[i] > own[i]

Newer(remote, own) ==
    \E i \in 1..3 : /\ remote[i] > own[i]
                    /\ \A j \in 1..(i - 1) : remote[j] = own[j]

Compare ==
    /\ verdict = "parsed"
    /\ IF Numbers[info.version] = <<>>
       THEN verdict' = "error" /\ info' = NoInfo
       ELSE /\ verdict' = IF Newer(Version(info.version), Version(local))
                          THEN "available" ELSE "not_available"
            /\ UNCHANGED info
    /\ UNCHANGED <<manifest, local>>

ManifestNext == Parse \/ Compare

ManifestSpec == ManifestInit /\ [][ManifestNext]_manifestVars
-----------------------------------------------------------------------------
(***************************************************************************)
(* What a reader of JSON makes of the manifest.  The search agrees with it *)
(* if no name occurs twice or inside an object and no string of the        *)
(* manifest is the same as a name that is looked for.                      *)
(***************************************************************************)
Plain ==
    /\ \A i, j \in DOMAIN manifest :
           manifest[i].name = manifest[j].name => i = j
    /\ \A i \in DOMAIN manifest :
           /\ manifest[i].kind # "object"
           /\ manifest[i].value \notin Required \cup Optional

StringMember(key) ==
    LET m == {i \in DOMAIN manifest :
                 manifest[i].name = key /\ manifest[i].kind = "string"}
    IN  IF m = {} THEN Missing ELSE manifest[CHOOSE i \in m : TRUE].value

Checked == verdict \in {"available", "not_available"}

\* In whatever order the members of a manifest come, each name gets the value
\* of its own member, a missing or overlong one is an error, and nothing else
\* is but a version without a number or notes that cannot be rewritten
\* (json_mini.c:16-49, update_remote_check.c:112-191).
ReadsMembers ==
    Plain =>
        /\ Checked =>
               /\ \A k \in Required : info[k] = StringMember(k)
               /\ info.description =
                      IF StringMember("description") = Missing
                      THEN NoText ELSE StringMember("description")
        /\ verdict = "error" =>
               \/ \E k \in Required : StringMember(k) \in {Missing} \cup Overlong
               \/ \E k \in Optional : StringMember(k) \in Overlong
               \/ StringMember("description") # Missing
               \/ Numbers[StringMember("version")] = <<>>

\* An update is offered exactly when its version is the greater one, taken as
\* one number with a large base, as long as no part of a version overflows;
\* an older one is never offered (update_remote_check.c:14-68).
Weight(v) == (v[1] * UintValues + v[2]) * UintValues + v[3]
Fits(s) == \A i \in DOMAIN Numbers[s] : Numbers[s][i] \in 0..(UintValues - 1)
OffersNewer ==
    Checked /\ Fits(info.version) /\ Fits(local) =>
        (verdict = "available"
            <=> Weight(Version(info.version)) > Weight(Version(local)))
==============================================================================
