---------------------------- MODULE ImageRecovery ----------------------------
(* The stages between decryption and rebuild, as Pipeline::run orders them      *)
(* (src/pipeline/mod.rs): startup selection on the decrypted image, which it may *)
(* leave decoded by a sparse key, then import recovery from that image by the     *)
(* profile the entry asks for.                                                    *)
EXTENDS StartupSelection, ImportDiscovery

recoveryVars == <<startupVars, importVars>>

CONSTANT Inputs   \* the images: pairs of what startup and import recovery see of one

ASSUME InputsAreTyped ==
    \A input \in Inputs : StartupImage(input[1]) /\ ImportImage(input[2])

RecoveryInit ==
    /\ \E input \in Inputs : image = input[1] /\ imports = input[2]
    /\ StartupInit /\ ImportInit

AnyTable == IF profile.entry.kind \in {"ManagedDll", "ManagedExe"} THEN "Standard" ELSE "NativeDll"
\* A failed selection ends the run; no import profile is derived from it.
ImportProfile ==
    CASE profile.entry.kind \in {"ManagedDll", "ManagedExe"} -> "Standard"
      [] profile.entry.kind = "NativeDll" -> "NativeDll"
      [] OTHER -> "EncodedLoader"

DiscoverImports ==
    /\ phase = "returned" /\ profile.result = "selected"
    /\ StartImports(ImportProfile)
    /\ UNCHANGED startupVars

Recovered ==
    /\ phase = "returned"
    /\ profile.result = "refused" \/ doing = "returned"
    /\ UNCHANGED recoveryVars

RecoveryNext ==
    \/ StartupNext /\ UNCHANGED importVars
    \/ DiscoverImports
    \/ ImportSteps /\ UNCHANGED startupVars
    \/ Recovered

RecoverySpec == RecoveryInit /\ [][RecoveryNext]_recoveryVars

-----------------------------------------------------------------------------
(* The types of both stages. *)
TypeOK == StartupTypeOK /\ ImportTypeOK

(* The import table belongs to the entry: a program with a native entry gets the  *)
(* encoded table or nothing, whatever directory its header declares; a library's    *)
(* directory is used only where the encoded table could not be decided, so a sole   *)
(* dominant table within the budgets always wins (imports/mod.rs:362-376).          *)
ImportsFollowTheEntry ==
    discovery.result = "found" =>
        /\ profile.result = "selected"
        /\ discovery.profile = "Standard" =>
              \/ profile.entry.kind \in {"ManagedDll", "ManagedExe"}
              \/ /\ profile.entry.kind = "NativeDll"
                 /\ EncodedIsUndecided
=============================================================================
