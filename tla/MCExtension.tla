----------------------------- MODULE MCExtension -----------------------------
(* The extension's own surfaces, side by side: they share no variable of the *)
(* model, so each behaviour is one of one part, chosen by its initial state. *)
(* The other parts rest in one initial state.                                *)
EXTENDS LetterStudio, PageContext, PageBadges, LocalTracker, Pairing, Profiles,
        SettingsStore, Authority

CONSTANTS s1, j1, j2, t1, v1, v2, a, k1, k2, p1, sp, dot, pa, r1, o1, o2

VARIABLE part

Parts == {"letters", "page", "badges", "tracker", "pairing", "profiles", "settings",
          "authority"}

MCTexts == {{"words"}, {"words", "emoji"}, {"words", "long", "generic"}}

ExtensionInit ==
    /\ part \in Parts
    /\ StudioInit /\ (part = "letters" \/ \A s \in Studios : studio[s].job = j1)
    /\ PageInit /\ mode = "standalone"
    /\ (part = "page" \/ \A tab \in PageTabs : page[tab].kind = "foreign")
    /\ BadgesInit /\ (creating = "none") # (renderGeneration = 0)
    /\ (part = "badges" \/ (renderGeneration = 0 /\ switches = Switches))
    /\ TrackerInit /\ (part = "tracker" \/ rows = [v \in Tracked |-> NoRow])
    /\ PairingInit /\ (part = "pairing" \/ opsWanted)
    \* One profile owns the resumes, and every row refers to it.
    /\ ProfilesInit /\ owner = [r \in ResumeIds |-> pa] /\ defaultProfile = pa
    /\ mainResumes = ResumeIds /\ manager.section = "profiles"
    /\ \A t \in Tables : refs[t] = Ref(pa, r1)
    \* Labs are on, and the second page is where profiles are kept.
    /\ SettingsInit /\ settings # Defaults /\ dirty = Stores /\ section[o2] = "general"
    /\ (part = "settings" \/ section[o1] = "general")
    /\ AuthorityInit /\ (part = "authority" \/ intent)

LettersPart ==
    /\ part = "letters" /\ StudioNext
    /\ UNCHANGED <<pageVars, badgeVars, trackerVars,
                   pairingVars, profileVars, settingsVars, authorityVars>>
PagePart ==
    /\ part = "page" /\ PageNext
    /\ UNCHANGED <<studioVars, badgeVars, trackerVars,
                   pairingVars, profileVars, settingsVars, authorityVars>>
BadgesPart ==
    /\ part = "badges" /\ BadgesNext
    /\ UNCHANGED <<studioVars, pageVars, trackerVars,
                   pairingVars, profileVars, settingsVars, authorityVars>>
TrackerPart ==
    /\ part = "tracker" /\ TrackerNext
    /\ UNCHANGED <<studioVars, pageVars, badgeVars,
                   pairingVars, profileVars, settingsVars, authorityVars>>
PairingPart ==
    /\ part = "pairing" /\ PairingNext
    /\ UNCHANGED <<studioVars, pageVars, badgeVars, trackerVars,
                   profileVars, settingsVars, authorityVars>>
ProfilesPart ==
    /\ part = "profiles" /\ ProfilesNext
    /\ UNCHANGED <<studioVars, pageVars, badgeVars, trackerVars,
                   pairingVars, settingsVars, authorityVars>>
SettingsPart ==
    /\ part = "settings" /\ SettingsNext
    /\ UNCHANGED <<studioVars, pageVars, badgeVars, trackerVars,
                   pairingVars, profileVars, authorityVars>>
AuthorityPart ==
    /\ part = "authority" /\ AuthorityNext
    /\ UNCHANGED <<studioVars, pageVars, badgeVars, trackerVars,
                   pairingVars, profileVars, settingsVars>>

ExtensionNext ==
    /\ part' = part
    /\ LettersPart \/ PagePart \/ BadgesPart \/ TrackerPart \/ PairingPart
       \/ ProfilesPart \/ SettingsPart \/ AuthorityPart

ExtensionSpec ==
    ExtensionInit
    /\ [][ExtensionNext]_<<part, studioVars, pageVars, badgeVars, trackerVars,
                           pairingVars, profileVars, settingsVars, authorityVars>>
=============================================================================
