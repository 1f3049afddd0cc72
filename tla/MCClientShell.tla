---------------------------- MODULE MCClientShell ----------------------------
(* Instances of ClientShell for TLC. *)
EXTENDS ClientShell

AllInputs == "notices" :> 3 @@ "list" :> 3 @@ "sleuth" :> 5 @@ "directory" :> 4
    @@ "managed" :> 3
    @@ "access" :> 4
    @@ "push" :> 6
    @@ "forms" :> 4
    @@ "account" :> 4

AllTopics == "security" :> 4 @@ "notifications" :> 3 @@ "profile" :> 4 @@ "password" :> 3
=============================================================================
