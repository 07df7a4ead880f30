CONSTANTS
    Device = {d1, d2}
    NoDevice = NoDevice
    Site = {s1, s2}
    NoSite = NoSite
    Request = {r1, r2}
    Idle = Idle
SPECIFICATION Spec
PROPERTIES TreeRemains SitesAgree SiteRemains
