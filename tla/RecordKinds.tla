---------------------------- MODULE RecordKinds ----------------------------
(***************************************************************************)
(* The resources of the provider as kinds of module Record: for each, what *)
(* its endpoints answer (wire), what its schema says of a change (schema)  *)
(* and which calls its handlers make (flow).                               *)
(***************************************************************************)

Wire(secret, create) == [secret |-> secret, create |-> create]

InPlace == [replaces |-> "nothing", keeps |-> FALSE]
Keeping == [replaces |-> "nothing", keeps |-> TRUE]
Replacing(what) == [replaces |-> what, keeps |-> FALSE]

\* One call to create, one to update, and the record is read again after it.
Simple == [prelude |-> FALSE, unique |-> FALSE, flags |-> "never", stored |-> "never",
           sends |-> "new", check |-> "none", extra |-> "none",
           onFail |-> "forget", back |-> "never", backFail |-> "forget",
           reread |-> TRUE, saves |-> "answer"]

\* A secret is resent from the record unless there is a new one.
WithSecret == [Simple EXCEPT !.flags = "first", !.stored = "needed"]

Kind(wire, schema, flow) == [wire |-> wire, schema |-> schema, flow |-> flow]

-----------------------------------------------------------------------------
(* Records with a secret. *)

RegistryWire == Wire("withheld", "record")
RegistrySchema == InPlace
RegistryFlow == [WithSecret EXCEPT !.check = "before"]

AIWire == Wire("masked", "nothing")
AISchema == InPlace
AIFlow == [WithSecret EXCEPT !.check = "before"]

DestinationWire == Wire("returned", "record")
DestinationSchema == InPlace
DestinationFlow == [WithSecret EXCEPT !.check = "before"]

CertificateWire == Wire("returned", "record")
CertificateSchema == InPlace
CertificateFlow == [WithSecret EXCEPT !.prelude = TRUE]

SSHKeyWire == Wire("returned", "nothing")
SSHKeySchema == Replacing("secret")
SSHKeyFlow == [WithSecret EXCEPT !.prelude = TRUE, !.stored = "never"]

UserWire == Wire("withheld", "record")
UserSchema == Replacing("secret")
UserFlow == [WithSecret EXCEPT !.stored = "never", !.back = "always"]

TelemetryProviderWire == Wire("withheld", "record")
TelemetryProviderSchema == InPlace
TelemetryProviderFlow == [Simple EXCEPT !.sends = "every"]

\* The secret stands for the whole block of the connection: every read masks
\* what is secret in it, and Read leaves the block as the state has it.
VaultProviderWire == Wire("withheld", "record")
VaultProviderSchema == InPlace
VaultProviderFlow == [Simple EXCEPT !.sends = "every", !.check = "before",
                                    !.prelude = TRUE, !.unique = TRUE]

\* The credentials of a backup inside a compose service.
BackupWire == Wire("returned", "nothing")
BackupSchema == InPlace
BackupFlow == [WithSecret EXCEPT !.prelude = TRUE]

NotificationWire == Wire("returned", "nothing")
NotificationSchema == InPlace
NotificationFlow == [WithSecret EXCEPT !.flags = "late", !.check = "before"]

SecurityWire == Wire("returned", "nothing")
SecurityFlow == [WithSecret EXCEPT !.flags = "late"]

-----------------------------------------------------------------------------
(* Git providers: a sharing switch with a call of its own. *)

Shared == [WithSecret EXCEPT !.check = "after", !.extra = "share", !.onFail = "go_on"]

GitlabProviderWire == Wire("returned", "nothing")
GitlabProviderSchema == Keeping
GitlabProviderFlow == [Shared EXCEPT !.prelude = TRUE]

GiteaProviderWire == Wire("returned", "id")
GiteaProviderSchema == Keeping
GiteaProviderFlow == Shared

BitbucketProviderWire == Wire("returned", "nothing")
BitbucketProviderSchema == Keeping
BitbucketProviderFlow == [Shared EXCEPT !.prelude = TRUE, !.stored = "always"]

-----------------------------------------------------------------------------
(* Records with an attribute the create call cannot express.  The server   *)
(* has two, the builds concurrency and the command, and is here for each.  *)

ServerWire == Wire("none", "record")
ServerSchema == Keeping
ServerFlow == [Simple EXCEPT !.extra = "own", !.back = "extra"]
ServerCommandSchema == InPlace
ServerCommandFlow == [Simple EXCEPT !.extra = "update", !.back = "extra"]

OrganizationWire == Wire("none", "record")
OrganizationSchema == Keeping
OrganizationFlow == [Simple EXCEPT !.extra = "update", !.back = "extra"]

\* The handlers that read the record back and save the plan.
SavingPlan == [Simple EXCEPT !.onFail = "keep", !.back = "always",
                             !.backFail = "keep", !.saves = "plan"]

ProjectWire == Wire("none", "record")
ProjectSchema == InPlace
ProjectFlow == [SavingPlan EXCEPT !.extra = "own", !.onFail = "blank"]

EnvironmentWire == Wire("none", "record")
EnvironmentSchema == InPlace
EnvironmentFlow == [SavingPlan EXCEPT !.extra = "update"]

DomainWire == Wire("none", "record")
DomainSchema == InPlace
DomainFlow == [SavingPlan EXCEPT !.extra = "update", !.onFail = "go_on"]

PatchWire == Wire("none", "record")
PatchSchema == InPlace
PatchFlow == [Simple EXCEPT !.extra = "update", !.onFail = "keep", !.reread = FALSE]

-----------------------------------------------------------------------------
(* One call to create and one to update, or none. *)

NetworkWire == Wire("none", "record")
NetworkSchema == Replacing("all")
NetworkFlow == Simple

APIKeyWire == Wire("none", "record")
APIKeySchema == Replacing("all")
APIKeyFlow == [Simple EXCEPT !.prelude = TRUE]

TagWire == Wire("none", "record")
TagSchema == InPlace
TagFlow == Simple

MountWire == Wire("none", "record")
MountSchema == InPlace
MountFlow == Simple

ScheduleWire == Wire("none", "record")
ScheduleSchema == InPlace
ScheduleFlow == Simple

VolumeBackupWire == Wire("none", "record")
VolumeBackupSchema == InPlace
VolumeBackupFlow == Simple

WebServerBackupWire == Wire("none", "nothing")
WebServerBackupSchema == InPlace
WebServerBackupFlow == [Simple EXCEPT !.prelude = TRUE]

\* Ports, redirects and security entries share schema and handlers.
PortWire == Wire("none", "record")
RedirectWire == Wire("none", "nothing")
ChildSchema == InPlace
ChildFlow == Simple

-----------------------------------------------------------------------------
SecretKinds ==
  {Kind(RegistryWire, RegistrySchema, RegistryFlow),
   Kind(AIWire, AISchema, AIFlow),
   Kind(DestinationWire, DestinationSchema, DestinationFlow),
   Kind(CertificateWire, CertificateSchema, CertificateFlow),
   Kind(SSHKeyWire, SSHKeySchema, SSHKeyFlow),
   Kind(UserWire, UserSchema, UserFlow),
   Kind(TelemetryProviderWire, TelemetryProviderSchema, TelemetryProviderFlow),
   Kind(VaultProviderWire, VaultProviderSchema, VaultProviderFlow),
   Kind(BackupWire, BackupSchema, BackupFlow),
   Kind(NotificationWire, NotificationSchema, NotificationFlow),
   Kind(SecurityWire, ChildSchema, SecurityFlow)}

GitKinds ==
  {Kind(GitlabProviderWire, GitlabProviderSchema, GitlabProviderFlow),
   Kind(GiteaProviderWire, GiteaProviderSchema, GiteaProviderFlow),
   Kind(BitbucketProviderWire, BitbucketProviderSchema, BitbucketProviderFlow)}

PlainKinds ==
  {Kind(ServerWire, ServerSchema, ServerFlow),
   Kind(ServerWire, ServerCommandSchema, ServerCommandFlow),
   Kind(OrganizationWire, OrganizationSchema, OrganizationFlow),
   Kind(ProjectWire, ProjectSchema, ProjectFlow),
   Kind(EnvironmentWire, EnvironmentSchema, EnvironmentFlow),
   Kind(DomainWire, DomainSchema, DomainFlow),
   Kind(PatchWire, PatchSchema, PatchFlow),
   Kind(NetworkWire, NetworkSchema, NetworkFlow),
   Kind(APIKeyWire, APIKeySchema, APIKeyFlow),
   Kind(TagWire, TagSchema, TagFlow),
   Kind(MountWire, MountSchema, MountFlow),
   Kind(ScheduleWire, ScheduleSchema, ScheduleFlow),
   Kind(VolumeBackupWire, VolumeBackupSchema, VolumeBackupFlow),
   Kind(WebServerBackupWire, WebServerBackupSchema, WebServerBackupFlow),
   Kind(PortWire, ChildSchema, ChildFlow),
   Kind(RedirectWire, ChildSchema, ChildFlow)}

AllKinds == SecretKinds \cup GitKinds \cup PlainKinds
=============================================================================
