----------------------------- MODULE DiNodeset ------------------------------
(***************************************************************************)
(* The node set of the OPC UA companion specification for devices, as the  *)
(* generated nodesets/di.c hands it to the SDK: entry i + 1 of DiTable is  *)
(* what function_di_<i>_begin and _finish add.                             *)
(***************************************************************************)
EXTENDS Integers, Sequences

LOCAL INSTANCE NodeEntries WITH Namespace <- "di"

(* Data types and their encodings. *)

UpdateDataTypes ==
     DataType(333, UInt32, "UpdateBehavior")
  \o UaProperty(388, 333, "OptionSetValues", Mandatory)
  \o DataType(331, Enumeration, "SoftwareVersionFileType")
  \o UaProperty(332, 331, "EnumStrings", Mandatory)

ParameterResultDataType ==
     DataType(6525, Structure, "ParameterResultDataType")
  \o Encoding(6554, 6525, "Default Binary")
  \o Encoding(6538, 6525, "Default XML")
  \o Encoding(15912, 6525, "Default JSON")

FetchResultDataType ==
     DataType(6522, Structure, "FetchResultDataType")
  \o Encoding(6551, 6522, "Default Binary")
  \o Encoding(6535, 6522, "Default XML")
  \o Encoding(15909, 6522, "Default JSON")

TransferResultDataDataType ==
     DataType(15889, Own(6522), "TransferResultDataDataType")
  \o Encoding(15911, 15889, "Default JSON")
  \o Encoding(15901, 15889, "Default XML")
  \o Encoding(15892, 15889, "Default Binary")

TransferResultErrorDataType ==
     DataType(15888, Own(6522), "TransferResultErrorDataType")
  \o Encoding(15910, 15888, "Default JSON")
  \o Encoding(15900, 15888, "Default XML")
  \o Encoding(15891, 15888, "Default Binary")

DeviceHealthEnumeration ==
     DataType(6244, Enumeration, "DeviceHealthEnumeration")
  \o UaProperty(6450, 6244, "EnumStrings", Mandatory)

(* Reference types. *)

ReferenceTypes ==
     ReferenceType(6031, Aggregates, "IsOnline")
  \o ReferenceType(6030, HierarchicalReferences, "ConnectsTo")
  \o ReferenceType(6467, Own(6030), "ConnectsToParent")

(* The type dictionaries of the data types. *)

XmlDictionary ==
     Dictionary(6423, XmlSchema_TypeSystem, "Opc.Ua.Di")
  \o Description(6548, 6423, "ParameterResultDataType", 6538)
  \o Description(6539, 6423, "FetchResultDataType", 6535)
  \o UaProperty(6425, 6423, "NamespaceUri", NoRule)

XmlTransferResults ==
     Description(15906, 6423, "TransferResultDataDataType", 15901)
  \o Description(15903, 6423, "TransferResultErrorDataType", 15900)
  \o UaProperty(15902, 6423, "Deprecated", NoRule)

BinaryDictionary ==
     Dictionary(6435, OPCBinary_TypeSystem, "Opc.Ua.Di")
  \o Description(6564, 6435, "ParameterResultDataType", 6554)
  \o Description(6555, 6435, "FetchResultDataType", 6551)
  \o UaProperty(6437, 6435, "NamespaceUri", NoRule)

BinaryTransferResults ==
     Description(15897, 6435, "TransferResultDataDataType", 15892)
  \o Description(15894, 6435, "TransferResultErrorDataType", 15891)
  \o UaProperty(15893, 6435, "Deprecated", NoRule)

(* The state machines of a software update. *)

ConfirmationTransitions ==
     ObjectType(307, FiniteStateMachineType, "ConfirmationStateMachineType", {})
  \o Transition(329, 307, "WaitingForConfirmToNotWaitingForConfirm", 330)
  \o Transition(327, 307, "NotWaitingForConfirmToWaitingForConfirm", 328)

ConfirmationStates ==
     State(325, 307, "WaitingForConfirm", StateType, {327}, {329}, 326)
  \o State(323, 307, "NotWaitingForConfirm", InitialStateType, {329}, {327}, 324)
  \o Variable(322, 307, "ConfirmationTimeout", Mandatory)
  \o Method(321, 307, "Confirm", Mandatory)

PowerCycleTransitions ==
     ObjectType(285, FiniteStateMachineType, "PowerCycleStateMachineType", {})
  \o Transition(305, 285, "WaitingForPowerCycleToNotWaitingForPowerCycle", 306)
  \o Transition(303, 285, "NotWaitingForPowerCycleToWaitingForPowerCycle", 304)

PowerCycleStates ==
     State(301, 285, "WaitingForPowerCycle", StateType, {303}, {305}, 302)
  \o State(299, 285, "NotWaitingForPowerCycle", InitialStateType, {305}, {303}, 300)

InstallationTransitions ==
     ObjectType(249, FiniteStateMachineType, "InstallationStateMachineType", {})
  \o Transition(283, 249, "ErrorToIdle", 284)
  \o Transition(281, 249, "InstallingToError", 282)

InstallingTransitions ==
     Transition(279, 249, "InstallingToIdle", 280)
  \o Transition(277, 249, "IdleToInstalling", 387)

InstallationStates ==
     State(275, 249, "Error", StateType, {281}, {283}, 276)
  \o State(273, 249, "Installing", StateType, {277}, {279, 281}, 274)
  \o State(271, 249, "Idle", InitialStateType, {279, 283}, {277}, 272)

InstallFiles ==
     Method(270, 249, "Resume", Mandatory)
  \o Method(268, 249, "InstallFiles", Optional)
  \o Input(269, 268)

InstallSoftwarePackage ==
     Method(265, 249, "InstallSoftwarePackage", Optional)
  \o Input(266, 265)
  \o Variable(264, 249, "InstallationDelay", Optional)
  \o Variable(263, 249, "PercentComplete", Optional)

PrepareForUpdateTransitions ==
     ObjectType(213, FiniteStateMachineType, "PrepareForUpdateStateMachineType", {})
  \o Transition(247, 213, "ResumingToIdle", 248)
  \o Transition(245, 213, "PreparedForUpdateToResuming", 246)

PreparingTransitions ==
     Transition(243, 213, "PreparingToPreparedForUpdate", 244)
  \o Transition(241, 213, "PreparingToIdle", 242)
  \o Transition(239, 213, "IdleToPreparing", 240)

PrepareForUpdateStates ==
     State(237, 213, "Resuming", StateType, {245}, {247}, 238)
  \o State(235, 213, "PreparedForUpdate", StateType, {243}, {245}, 236)

PreparingStates ==
     State(233, 213, "Preparing", StateType, {239}, {241, 243}, 234)
  \o State(231, 213, "Idle", InitialStateType, {241, 247}, {239}, 232)

PrepareForUpdateMethods ==
     Method(230, 213, "Resume", Optional)
  \o Method(229, 213, "Abort", Mandatory)
  \o Method(228, 213, "Prepare", Mandatory)
  \o Variable(227, 213, "PercentComplete", Optional)

(* Software versions and how new ones are loaded. *)

SoftwareVersionType ==
     ObjectType(212, BaseObjectType, "SoftwareVersionType", {})
  \o Property(386, 212, "Hash", Optional)
  \o Property(385, 212, "ChangeLogReference", Optional)
  \o Property(384, 212, "ReleaseDate", Optional)
  \o Property(383, 212, "PatchIdentifiers", Optional)

SoftwareVersionIdentity ==
     Property(382, 212, "SoftwareRevision", Mandatory)
  \o Property(381, 212, "ManufacturerUri", Mandatory)
  \o Property(380, 212, "Manufacturer", Mandatory)

FileSystemLoadingType ==
     AbstractType(135, BaseObjectType, "SoftwareLoadingType", {})
  \o ObjectType(192, Own(135), "FileSystemLoadingType", {})
  \o Method(209, 192, "ValidateFiles", Optional)
  \o Output(211, 209)
  \o Input(210, 209)

FileSystem ==
     Method(206, 192, "GetUpdateBehavior", Mandatory)
  \o Output(208, 206)
  \o Input(207, 206)
  \o UaObject(194, 192, "FileSystem", FileDirectoryType, Mandatory)

MoveOrCopy ==
     UaMethod(203, 194, "MoveOrCopy", Mandatory)
  \o Output(205, 203)
  \o Input(204, 203)

DeleteFile ==
     UaMethod(201, 194, "Delete", Mandatory)
  \o Input(202, 201)

CreateFile ==
     UaMethod(198, 194, "CreateFile", Mandatory)
  \o Output(200, 198)
  \o Input(199, 198)

CreateDirectory ==
     UaMethod(195, 194, "CreateDirectory", Mandatory)
  \o Output(197, 195)
  \o Input(196, 195)

CachedLoadingType ==
     AbstractType(137, Own(135), "PackageLoadingType", {})
  \o ObjectType(171, Own(137), "CachedLoadingType", {})
  \o Method(189, 171, "GetUpdateBehavior", Mandatory)
  \o Output(191, 189)
  \o Input(190, 189)

FallbackVersion ==
     Object(188, 171, "FallbackVersion", Own(212), Optional)
  \o Property(375, 188, "SoftwareRevision", Mandatory)
  \o Property(374, 188, "ManufacturerUri", Mandatory)
  \o Property(373, 188, "Manufacturer", Mandatory)

PendingVersion ==
     Object(187, 171, "PendingVersion", Own(212), Mandatory)
  \o Property(368, 187, "SoftwareRevision", Mandatory)
  \o Property(367, 187, "ManufacturerUri", Mandatory)
  \o Property(366, 187, "Manufacturer", Mandatory)

DirectLoadingType ==
     ObjectType(153, Own(137), "DirectLoadingType", {})
  \o Property(170, 153, "WriteTimeout", Optional)
  \o Variable(169, 153, "UpdateBehavior", Mandatory)
  \o Property(152, 137, "WriteBlockSize", Optional)
  \o Variable(151, 137, "ErrorMessage", Mandatory)

PackageTransfer ==
     Object(140, 137, "FileTransfer", TemporaryFileTransferType, Mandatory)
  \o UaMethod(148, 140, "CloseAndCommit", Mandatory)
  \o Output(150, 148)
  \o Input(149, 148)

PackageForWrite ==
     UaMethod(145, 140, "GenerateFileForWrite", Mandatory)
  \o Output(147, 145)
  \o Input(146, 145)

PackageForRead ==
     UaMethod(142, 140, "GenerateFileForRead", Mandatory)
  \o Output(144, 142)
  \o Input(143, 142)

CurrentVersion ==
     UaProperty(141, 140, "ClientProcessingTimeout", Mandatory)
  \o Object(139, 137, "CurrentVersion", Own(212), Mandatory)
  \o Property(347, 139, "SoftwareRevision", Mandatory)
  \o Property(346, 139, "ManufacturerUri", Mandatory)
  \o Property(345, 139, "Manufacturer", Mandatory)
  \o Variable(136, 135, "UpdateKey", Optional)

(* The update of a device. *)

UpdateConfirmation ==
     ObjectType(1, BaseObjectType, "SoftwareUpdateType", {})
  \o Object(98, 1, "Confirmation", Own(307), Optional)
  \o CurrentState(99, 98, 100)
  \o Variable(113, 98, "ConfirmationTimeout", Mandatory)
  \o Method(112, 98, "Confirm", Mandatory)

UpdatePowerCycle ==
     Object(76, 1, "PowerCycle", Own(285), Optional)
  \o CurrentState(77, 76, 78)
  \o Variable(402, 1, "VendorErrorCode", Optional)

UpdateInstallation ==
     Object(40, 1, "Installation", Own(249), Optional)
  \o Method(61, 40, "Resume", Mandatory)
  \o CurrentState(41, 40, 42)

UpdatePreparation ==
     Object(4, 1, "PrepareForUpdate", Own(213), Optional)
  \o CurrentState(5, 4, 6)
  \o Method(20, 4, "Abort", Mandatory)
  \o Method(19, 4, "Prepare", Mandatory)

UpdateLoading ==
     Object(2, 1, "Loading", Own(135), Optional)
  \o UaProperty(134, 1, "DefaultInstanceBrowseName", NoRule)
  \o Variable(133, 1, "UpdateStatus", Optional)

UpdateParameters ==
     Object(122, 1, "Parameters", TemporaryFileTransferType, Optional)
  \o UaMethod(130, 122, "CloseAndCommit", Mandatory)
  \o Output(132, 130)
  \o Input(131, 130)

ParametersForWrite ==
     UaMethod(127, 122, "GenerateFileForWrite", Mandatory)
  \o Output(129, 127)
  \o Input(128, 127)

ParametersForRead ==
     UaMethod(124, 122, "GenerateFileForRead", Mandatory)
  \o Output(126, 124)
  \o Input(125, 124)
  \o UaProperty(123, 122, "ClientProcessingTimeout", Mandatory)

(* Locking. *)

LockingServicesType ==
     ObjectType(6388, BaseObjectType, "LockingServicesType", {})
  \o Property(6534, 6388, "Locked", Mandatory)
  \o Method(6400, 6388, "BreakLock", Mandatory)
  \o Output(6401, 6400)

ExitAndRenewLock ==
     Method(6398, 6388, "ExitLock", Mandatory)
  \o Output(6399, 6398)
  \o Method(6396, 6388, "RenewLock", Mandatory)
  \o Output(6397, 6396)

InitLock ==
     Method(6393, 6388, "InitLock", Mandatory)
  \o Output(6395, 6393)
  \o Input(6394, 6393)
  \o Property(6392, 6388, "RemainingLockTime", Mandatory)

LockOwner ==
     Property(6391, 6388, "LockingUser", Mandatory)
  \o Property(6390, 6388, "LockingClient", Mandatory)
  \o UaProperty(15890, 6388, "DefaultInstanceBrowseName", NoRule)
  \o CapabilityProperty(6387, ServerCapabilities, "MaxInactiveLockTime")

(* Transfer of parameters. *)

TransferServicesType ==
     ObjectType(6526, BaseObjectType, "TransferServicesType", {})
  \o Method(6531, 6526, "FetchTransferResultData", Mandatory)
  \o Output(6533, 6531)
  \o Input(6532, 6531)

TransferMethods ==
     Method(6529, 6526, "TransferFromDevice", Mandatory)
  \o Output(6530, 6529)
  \o Method(6527, 6526, "TransferToDevice", Mandatory)
  \o Output(6528, 6527)

(* Networks, protocols and functional groups. *)

NetworkType ==
     ObjectType(6247, BaseObjectType, "NetworkType", {})
  \o Object(6294, 6247, "Lock", Own(6388), Optional)
  \o Property(6497, 6294, "Locked", Mandatory)
  \o Method(6306, 6294, "BreakLock", Mandatory)
  \o Output(6307, 6306)

NetworkExitAndRenewLock ==
     Method(6304, 6294, "ExitLock", Mandatory)
  \o Output(6305, 6304)
  \o Method(6302, 6294, "RenewLock", Mandatory)
  \o Output(6303, 6302)

NetworkInitLock ==
     Method(6299, 6294, "InitLock", Mandatory)
  \o Output(6301, 6299)
  \o Input(6300, 6299)
  \o Property(6298, 6294, "RemainingLockTime", Mandatory)

NetworkLockOwner ==
     Property(6297, 6294, "LockingUser", Mandatory)
  \o Property(6296, 6294, "LockingClient", Mandatory)
  \o VariableType(6246, BaseDataVariableType, "UIElementType")
  \o ObjectType(1006, BaseObjectType, "ProtocolType", {})
  \o Object(6596, 6247, "<ProfileIdentifier>", Own(1006), MandatoryPlaceholder)

FunctionalGroupType ==
     ObjectType(1005, FolderType, "FunctionalGroupType", {})
  \o TypedVariable(6243, 1005, "UIElement", Own(6246), Optional)
  \o Object(6027, 1005, "<GroupIdentifier>", Own(1005), OptionalPlaceholder)
  \o TypedVariable(6242, 6027, "UIElement", Own(6246), Optional)

ConfigurableObjectType ==
     ObjectType(1004, BaseObjectType, "ConfigurableObjectType", {})
  \o Object(6026, 1004, "<ObjectIdentifier>", BaseObjectType, OptionalPlaceholder)
  \o Object(5004, 1004, "SupportedTypes", FolderType, Mandatory)

(* Alarms. *)

HealthAlarmTypes ==
     AbstractType(15143, InstrumentDiagnosticAlarmType, "DeviceHealthDiagnosticAlarmType", {})
  \o ObjectType(15739, Own(15143), "MaintenanceRequiredAlarmType", {})
  \o ObjectType(15590, Own(15143), "OffSpecAlarmType", {})
  \o ObjectType(15441, Own(15143), "CheckFunctionAlarmType", {})
  \o ObjectType(15292, Own(15143), "FailureAlarmType", {})

(* Interfaces. *)

ISupportInfoType ==
     AbstractType(15054, BaseInterfaceType, "ISupportInfoType", {})
  \o Object(15061, 15054, "ImageSet", FolderType, Optional)
  \o Variable(15062, 15061, "<ImageIdentifier>", MandatoryPlaceholder)
  \o Object(15059, 15054, "ProtocolSupport", FolderType, Optional)
  \o Variable(15060, 15059, "<ProtocolSupportIdentifier>", MandatoryPlaceholder)

SupportDocuments ==
     Object(15057, 15054, "Documentation", FolderType, Optional)
  \o Variable(15058, 15057, "<DocumentIdentifier>", MandatoryPlaceholder)
  \o Object(15055, 15054, "DeviceTypeImage", FolderType, Optional)
  \o Variable(15056, 15055, "<ImageIdentifier>", MandatoryPlaceholder)

IDeviceHealthType ==
     AbstractType(15051, BaseInterfaceType, "IDeviceHealthType", {})
  \o Object(15053, 15051, "DeviceHealthAlarms", FolderType, Optional)
  \o Variable(15052, 15051, "DeviceHealth", Optional)
  \o AbstractType(15048, BaseInterfaceType, "ITagNameplateType", {})
  \o Property(15050, 15048, "ComponentName", Optional)
  \o Property(15049, 15048, "AssetId", Optional)

IVendorNameplateType ==
     AbstractType(15035, BaseInterfaceType, "IVendorNameplateType", {})
  \o Property(15047, 15035, "RevisionCounter", Optional)
  \o Property(15046, 15035, "ProductInstanceUri", Optional)
  \o Property(15045, 15035, "SerialNumber", Optional)
  \o Property(15044, 15035, "DeviceClass", Optional)

VendorRevisions ==
     Property(15043, 15035, "DeviceManual", Optional)
  \o Property(15042, 15035, "ProductCode", Optional)
  \o Property(15041, 15035, "DeviceRevision", Optional)
  \o Property(15040, 15035, "SoftwareRevision", Optional)
  \o Property(15039, 15035, "HardwareRevision", Optional)

VendorModel ==
     Property(15038, 15035, "Model", Optional)
  \o Property(15037, 15035, "ManufacturerUri", Optional)
  \o Property(15036, 15035, "Manufacturer", Optional)

(* Topology elements: the types of everything that is part of a device. *)

TopologyElementType ==
     AbstractType(1001, BaseObjectType, "TopologyElementType", {})
  \o Object(6567, 1001, "<GroupIdentifier>", Own(1005), OptionalPlaceholder)

ConnectionPointType ==
     AbstractType(6308, Own(1001), "ConnectionPointType", {})
  \o Placed(6599, Own(6308), Own(6030), "<NetworkIdentifier>", Own(6247), OptionalPlaceholder)
  \o Object(6499, 6308, "<ProfileIdentifier>", Own(1006), MandatoryPlaceholder)
  \o Object(6354, 6308, "NetworkAddress", Own(1005), Mandatory)
  \o Placed(6248, Own(6247), Own(6030), "<CPIdentifier>", Own(6308), OptionalPlaceholder)
  \o Object(6292, 6248, "NetworkAddress", Own(1005), Mandatory)

TopologyLock ==
     Object(6161, 1001, "Lock", Own(6388), Optional)
  \o Property(6468, 6161, "Locked", Mandatory)
  \o Method(6173, 6161, "BreakLock", Mandatory)
  \o Output(6174, 6173)

TopologyExitAndRenewLock ==
     Method(6171, 6161, "ExitLock", Mandatory)
  \o Output(6172, 6171)
  \o Method(6169, 6161, "RenewLock", Mandatory)
  \o Output(6170, 6169)

TopologyInitLock ==
     Method(6166, 6161, "InitLock", Mandatory)
  \o Output(6168, 6166)
  \o Input(6167, 6166)
  \o Property(6165, 6161, "RemainingLockTime", Mandatory)

TopologySets ==
     Property(6164, 6161, "LockingUser", Mandatory)
  \o Property(6163, 6161, "LockingClient", Mandatory)
  \o Object(6014, 1001, "Identification", Own(1005), Optional)
  \o Object(5003, 1001, "MethodSet", BaseObjectType, Optional)
  \o Object(5002, 1001, "ParameterSet", BaseObjectType, Optional)
  \o Variable(6017, 5002, "<ParameterIdentifier>", MandatoryPlaceholder)

(* Components. *)

ComponentType ==
     AbstractType(15063, Own(1001), "ComponentType", {15035, 15048})
  \o ObjectType(15106, Own(15063), "SoftwareType", {})
  \o Property(15133, 15106, "SoftwareRevision", Mandatory)
  \o Property(15131, 15106, "Model", Mandatory)
  \o Property(15129, 15106, "Manufacturer", Mandatory)

ComponentTag ==
     Property(15099, 15063, "ComponentName", Optional)
  \o Property(15098, 15063, "AssetId", Optional)
  \o Property(15097, 15063, "RevisionCounter", Optional)
  \o Property(15096, 15063, "ProductInstanceUri", Optional)
  \o Property(15095, 15063, "SerialNumber", Optional)

ComponentRevisions ==
     Property(15094, 15063, "DeviceClass", Optional)
  \o Property(15093, 15063, "DeviceManual", Optional)
  \o Property(15092, 15063, "ProductCode", Optional)
  \o Property(15091, 15063, "DeviceRevision", Optional)
  \o Property(15090, 15063, "SoftwareRevision", Optional)

ComponentModel ==
     Property(15089, 15063, "HardwareRevision", Optional)
  \o Property(15088, 15063, "Model", Optional)
  \o Property(15087, 15063, "ManufacturerUri", Optional)
  \o Property(15086, 15063, "Manufacturer", Optional)

(* Devices. *)

DeviceType ==
     AbstractType(1002, Own(15063), "DeviceType", {15054, 15051})
  \o Object(6571, 1002, "<CPIdentifier>", Own(6308), OptionalPlaceholder)
  \o Object(6592, 6571, "NetworkAddress", Own(1005), Mandatory)
  \o Property(6470, 1002, "DeviceClass", Optional)
  \o Object(6215, 1002, "ImageSet", FolderType, Optional)

DeviceDocuments ==
     Variable(6216, 6215, "<ImageIdentifier>", MandatoryPlaceholder)
  \o Object(6213, 1002, "ProtocolSupport", FolderType, Optional)
  \o Variable(6214, 6213, "<ProtocolSupportIdentifier>", MandatoryPlaceholder)
  \o Object(6211, 1002, "Documentation", FolderType, Optional)
  \o Variable(6212, 6211, "<DocumentIdentifier>", MandatoryPlaceholder)

DeviceHealth ==
     Object(6209, 1002, "DeviceTypeImage", FolderType, Optional)
  \o Variable(6210, 6209, "<ImageIdentifier>", MandatoryPlaceholder)
  \o Variable(6208, 1002, "DeviceHealth", Optional)
  \o Property(6008, 1002, "HardwareRevision", Mandatory)
  \o Property(6007, 1002, "SoftwareRevision", Mandatory)

DeviceNameplate ==
     Property(6006, 1002, "DeviceRevision", Mandatory)
  \o Property(6005, 1002, "DeviceManual", Mandatory)
  \o Property(6004, 1002, "Model", Mandatory)
  \o Property(6003, 1002, "Manufacturer", Mandatory)

DeviceSerialNumber ==
     Property(6002, 1002, "RevisionCounter", Mandatory)
  \o Property(6001, 1002, "SerialNumber", Mandatory)
  \o Object(15105, 1002, "DeviceHealthAlarms", FolderType, Optional)
  \o Property(15102, 1002, "ProductInstanceUri", Optional)
  \o Property(15101, 1002, "ProductCode", Optional)
  \o Property(15100, 1002, "ManufacturerUri", Optional)

(* Blocks. *)

BlockType ==
     AbstractType(1003, Own(1001), "BlockType", {})
  \o Property(6013, 1003, "TargetMode", Optional)
  \o Property(6012, 1003, "NormalMode", Optional)
  \o Property(6011, 1003, "PermittedMode", Optional)
  \o Property(6010, 1003, "ActualMode", Optional)
  \o Property(6009, 1003, "RevisionCounter", Optional)

(* Where the instances go. *)

DeviceFolders ==
     Placed(6094, ObjectsFolder, Organizes, "DeviceTopology", BaseObjectType, NoRule)
  \o Property(6095, 6094, "OnlineAccess", NoRule)
  \o Placed(6078, ObjectsFolder, Organizes, "NetworkSet", BaseObjectType, NoRule)
  \o Placed(5001, ObjectsFolder, Organizes, "DeviceSet", BaseObjectType, NoRule)
  \o Placed(15034, Own(5001), Organizes, "DeviceFeatures", BaseObjectType, NoRule)

(* What the node set says of itself. *)

NamespaceMetadata ==
     Placed(15001, Server_Namespaces, HasComponent, "http://opcfoundation.org/UA/DI/",
            NamespaceMetadataType, NoRule)
  \o UaProperty(15033, 15001, "DefaultAccessRestrictions", NoRule)
  \o UaProperty(15032, 15001, "DefaultUserRolePermissions", NoRule)
  \o UaProperty(15031, 15001, "DefaultRolePermissions", NoRule)
  \o UaProperty(15008, 15001, "StaticStringNodeIdPattern", NoRule)

NamespaceIds ==
     UaProperty(15007, 15001, "StaticNumericNodeIdRange", NoRule)
  \o UaProperty(15006, 15001, "StaticNodeIdTypes", NoRule)
  \o UaProperty(15005, 15001, "IsNamespaceSubset", NoRule)
  \o UaProperty(15004, 15001, "NamespacePublicationDate", NoRule)
  \o UaProperty(15003, 15001, "NamespaceVersion", NoRule)
  \o UaProperty(15002, 15001, "NamespaceUri", NoRule)

DiTable ==
     UpdateDataTypes \o ParameterResultDataType \o FetchResultDataType
  \o TransferResultDataDataType \o TransferResultErrorDataType
  \o DeviceHealthEnumeration \o ReferenceTypes \o XmlDictionary
  \o XmlTransferResults \o BinaryDictionary \o BinaryTransferResults
  \o ConfirmationTransitions \o ConfirmationStates \o PowerCycleTransitions
  \o PowerCycleStates \o InstallationTransitions \o InstallingTransitions
  \o InstallationStates \o InstallFiles \o InstallSoftwarePackage
  \o PrepareForUpdateTransitions \o PreparingTransitions
  \o PrepareForUpdateStates \o PreparingStates \o PrepareForUpdateMethods
  \o SoftwareVersionType \o SoftwareVersionIdentity \o FileSystemLoadingType
  \o FileSystem \o MoveOrCopy \o DeleteFile \o CreateFile \o CreateDirectory
  \o CachedLoadingType \o FallbackVersion \o PendingVersion \o DirectLoadingType
  \o PackageTransfer \o PackageForWrite \o PackageForRead \o CurrentVersion
  \o UpdateConfirmation \o UpdatePowerCycle \o UpdateInstallation
  \o UpdatePreparation \o UpdateLoading \o UpdateParameters \o ParametersForWrite
  \o ParametersForRead \o LockingServicesType \o ExitAndRenewLock \o InitLock
  \o LockOwner \o TransferServicesType \o TransferMethods \o NetworkType
  \o NetworkExitAndRenewLock \o NetworkInitLock \o NetworkLockOwner
  \o FunctionalGroupType \o ConfigurableObjectType \o HealthAlarmTypes
  \o ISupportInfoType \o SupportDocuments \o IDeviceHealthType
  \o IVendorNameplateType \o VendorRevisions \o VendorModel
  \o TopologyElementType \o ConnectionPointType \o TopologyLock
  \o TopologyExitAndRenewLock \o TopologyInitLock \o TopologySets
  \o ComponentType \o ComponentTag \o ComponentRevisions \o ComponentModel
  \o DeviceType \o DeviceDocuments \o DeviceHealth \o DeviceNameplate
  \o DeviceSerialNumber \o BlockType \o DeviceFolders \o NamespaceMetadata
  \o NamespaceIds

(* di() begins and finishes the nodes in this order.  The types the rest    *)
(* is built with come first: the reference types are finished at once.      *)
LoadTypeSystem ==
  Begins(0, 22) \o Finishes(22, 22) \o Begins(23, 23) \o Finishes(23, 23)
    \o Begins(24, 24) \o Finishes(24, 24)

BeginInstances     == Begins(25, 372)
FinishInstances    == Finishes(372, 25)
FinishDataTypes    == Finishes(21, 0)

DiCalls == LoadTypeSystem \o BeginInstances \o FinishInstances \o FinishDataTypes
=============================================================================
