SPECIFICATION Spec
CONSTANTS
    v1 = v1
    v2 = v2
    v3 = v3
    u1 = u1
    u2 = u2
    d1 = d1
    d2 = d2
    None = None
    Lost = Lost
    Boot = Boot
    Letters = {"C", "E", "F"}
    Paths = {v1, v2, v3, u1, u2}
    Serials = {"s1", "s2", "s3"}
    MaxPlugs = 1
    Devices = {d1, d2}
    Directories <- MCDirectories
    DevicePath <- MCDevicePath
    DeviceSerial <- MCDeviceSerial
    Begins <- MCBegins
    Alike <- MCAlike
INVARIANTS TypeOK BreaksOnlyWithACause
PROPERTIES ScanClassifies PlugIsNoticed
CHECK_DEADLOCK FALSE
